---- MODULE Spec2Model ----
(***************************************************************************)
(* State-machine model of the Earth-space distributed coordination engine  *)
(* of rotastellar-node (@rotastellar/distributed):                         *)
(*   - CompressionConfig                         (compression settings)    *)
(*   - GradientCompressor / GradientAggregator   (federated learning)      *)
(*   - PriorityQueue / SyncScheduler             (contact scheduling)      *)
(*   - SpaceMesh                                 (ISL mesh routing)        *)
(*   - PartitionOptimizer                        (model partitioning)      *)
(*   - Topology                                  (node/connection graph)   *)
(* Each component owns its state exclusively, so each has its own          *)
(* specification (SpecConfig, SpecComp, SpecAgg, SpecSched, SpecMesh,      *)
(* SpecPart, SpecTopo) over the shared variable list; the variables of the other     *)
(* components stay at their constructed values.                            *)
(*                                                                         *)
(* Numbers.  JavaScript numbers are IEEE doubles.  Gradient values,        *)
(* weights and quantization levels are modelled as exact rationals         *)
(* <<numerator, denominator>>; link latencies are fixed-point integers in  *)
(* nanoseconds; times are integer milliseconds from the scheduler's        *)
(* construction.  Array indices keep the code's 0-based values; TLA+       *)
(* sequences holding them are 1-based.                                     *)
(***************************************************************************)
EXTENDS Integers, Sequences, FiniteSets, TLC

VARIABLES
    \* ---- CompressionConfig (src/unnamed/part_006) ----
    newOptions,        \* options object of the last construction (each field [set, val])
    newError,          \* message of the Error the last construction threw ("": none)
    newConfig,         \* CompressionConfig the last construction returned (NoConfig: none)
    newOp,             \* last call: "none" | "new" | "highCompression" | "balanced" | "lowCompression"
    \* ---- GradientCompressor (src/unnamed/part_006) ----
    cConfig,           \* CompressionConfig of the compressor instance
    cLen,              \* length of the gradient vectors of the model being trained
    errorAccumulator,  \* [set, val]: set = FALSE is the code's null
    cCalls,            \* number of compress calls made so far
    cOp,               \* last call: "new" | "compress" | "decompress"
    cIn,               \* argument of the last compress call
    cPrevIn,           \* argument of the compress call before the last one
    cCarried,          \* errorAccumulator as it was when the last compress call began
    cOut,              \* CompressedGradient returned by the last compress call
    cDec,              \* vector returned by the last decompress call
    \* ---- GradientAggregator (src/unnamed/part_006) ----
    aConfig,           \* [strategy, minParticipants, modelSize] given to the constructor
    pendingGradients,  \* the Map in insertion order: sequence of [nodeId, gradient, samples]
    round,             \* the private round counter
    aOp,               \* last call: "new" | "receive" | "aggregate"
    aError,            \* TRUE when the last call threw
    aResult,           \* vector returned by the last aggregate call
    aBefore,           \* [pending, round] as they were when the last aggregate call began
    aLatest,           \* per node, the last contribution received since the last aggregation
    aIncluded,         \* aLatest as it was when the last aggregate call began
    aReturned,         \* number of aggregate calls that returned a result
    \* ---- PriorityQueue / SyncScheduler (src/packages/distributed/src/core.ts) ----
    groundStations,    \* the scheduler's ground stations
    heap,              \* PriorityQueue.heap
    taskCounter,       \* PriorityQueue.taskCounter
    schedule,          \* SyncScheduler.schedule: sequence of [window, tasks]
    now,               \* Date.now()
    sOp,               \* last call: "new" | "scheduleSync" | "popTask" | "peekTask" |
                       \*            "getTasksForWindow" | "optimize" | "getScheduleSummary"
    sPopped,           \* task returned by the last popTask or peekTask call (NoTask: undefined)
    sBefore,           \* heap as it was when the last popTask, getTasksForWindow or
                       \* optimize call began
    sCapacity,         \* capacityBytes of the last getTasksForWindow call
    sGot,              \* tasks returned by the last getTasksForWindow call
    sDeadline,         \* deadline argument of the last scheduleSync call ([set, val])
    summary,           \* record returned by the last getScheduleSummary call (NoSummary: none)
    sDirect,           \* TRUE once popTask or getTasksForWindow was called on the queue
                       \* from outside the scheduler and took a task
    \* ---- SpaceMesh (src/packages/distributed/src/mesh.ts) ----
    nodes,             \* SpaceMesh.nodes: node records in insertion order
    links,             \* SpaceMesh.links: link key -> ISLLink
    adjacency,         \* SpaceMesh.adjacency: node id -> neighbour ids in insertion order
    route,             \* Route returned by the last findRoute call (NoRoute: none)
    stats,             \* record returned by the last getMeshStats call (NoStats: none)
    routeObjective,    \* optimizeFor of the last findRoute call ("": last call was another)
    meshOp,            \* last call: "new" | "addNode" | "removeNode" | "updateTopology" |
                       \*            "findRoute" | "getMeshStats"
    removedId,         \* argument of the last removeNode call (NoNode: last call was another)
    meshBefore,        \* [nodes, links, adjacency] as they were when the last addNode or
                       \* removeNode call began
    addedSince,        \* ids registered by addNode as new ids since the last updateTopology
    \* ---- PartitionOptimizer (src/packages/distributed/src/core.ts) ----
    pPool,             \* [groundComputeTflops, orbitalComputeTflops, uplinkBandwidthMbps]
    pModel,            \* ModelProfile.layers of the last optimize call
    pObjective,        \* objective of the last optimize call ("": no call yet)
    pPlan,             \* PartitionPlan returned by the last optimize call
    \* ---- Topology (src/packages/distributed/src/core.ts) ----
    tNodes,            \* Topology.nodes: node id -> NodeConfig
    connections,       \* Topology.connections: sequence of [node1, node2, bandwidthMbps]
    tOp,               \* last call: "new" | "addNode" | "removeNode" | "addConnection"
    tArgs,             \* <<node1Id, node2Id>> of the last addConnection call
    tError,            \* message of the Error the last call threw ("": none)
    tBefore            \* [nodes, connections] as they were when the last call began

configVars == <<newOptions, newError, newConfig, newOp>>

compVars ==
    <<cConfig, cLen, errorAccumulator, cCalls, cOp, cIn, cPrevIn, cCarried, cOut, cDec>>

aggVars == <<aConfig, pendingGradients, round, aOp, aError, aResult, aBefore, aLatest,
             aIncluded, aReturned>>

schedVars == <<groundStations, heap, taskCounter, schedule, now, sOp, sPopped,
               sBefore, sCapacity, sGot, sDeadline, summary, sDirect>>

meshVars == <<nodes, links, adjacency, route, stats, routeObjective, meshOp, removedId,
              meshBefore, addedSince>>

partVars == <<pPool, pModel, pObjective, pPlan>>

topoVars == <<tNodes, connections, tOp, tArgs, tError, tBefore>>

vars == <<configVars, compVars, aggVars, schedVars, meshVars, partVars, topoVars>>

otherThanConfig == <<compVars, aggVars, schedVars, meshVars, partVars, topoVars>>

otherThanPart == <<configVars, compVars, aggVars, schedVars, meshVars, topoVars>>

otherThanComp == <<configVars, aggVars, schedVars, meshVars, partVars, topoVars>>

otherThanAgg == <<configVars, compVars, schedVars, meshVars, partVars, topoVars>>

otherThanSched == <<configVars, compVars, aggVars, meshVars, partVars, topoVars>>

otherThanTopo == <<configVars, compVars, aggVars, schedVars, meshVars, partVars>>

otherThanMesh == <<configVars, compVars, aggVars, schedVars, partVars, topoVars>>

(***************************************************************************)
(* Bounds                                                                  *)
(***************************************************************************)
MaxLen == 3        \* longest gradient vector
MaxCalls == 2      \* compress calls per compressor instance
ModelLen == 2      \* length of the model the aggregator serves
MaxMinParticipants == 2   \* largest minParticipants an aggregator is constructed with
MaxRounds == 2     \* aggregation rounds per aggregator instance
MaxTasks == 2      \* tasks enqueued per scheduler instance
MaxClockHours == 1 \* hours the clock advances during a run
MaxLayers == 3     \* layers of the largest model profile
MaxConnections == 2   \* connections a topology holds

(***************************************************************************)
(* Exact rational arithmetic standing in for JS number arithmetic          *)
(***************************************************************************)
Abs(x) == IF x < 0 THEN -x ELSE x

Min2(a, b) == IF a < b THEN a ELSE b

Max2(a, b) == IF a > b THEN a ELSE b

RECURSIVE GCD(_, _)
GCD(a, b) == IF b = 0 THEN a ELSE GCD(b, a % b)

\* n/d in lowest terms, d > 0
Rat(n, d) == LET g == GCD(Abs(n), d) IN <<n \div g, d \div g>>

RInt(i) == <<i, 1>>

RZero == <<0, 1>>

RAdd(a, b) == Rat(a[1] * b[2] + b[1] * a[2], a[2] * b[2])

RSub(a, b) == Rat(a[1] * b[2] - b[1] * a[2], a[2] * b[2])

RMul(a, b) == Rat(a[1] * b[1], a[2] * b[2])

\* a / b for b # 0
RDiv(a, b) ==
    IF b[1] > 0 THEN Rat(a[1] * b[2], a[2] * b[1])
    ELSE Rat(-(a[1] * b[2]), -(a[2] * b[1]))

RLt(a, b) == a[1] * b[2] < b[1] * a[2]

RLe(a, b) == a[1] * b[2] <= b[1] * a[2]

RAbs(a) == <<Abs(a[1]), a[2]>>

\* Math.floor
RFloor(a) == a[1] \div a[2]

\* Math.round: nearest integer, halves towards +Infinity
RRound(a) == (2 * a[1] + a[2]) \div (2 * a[2])

RECURSIVE Pow2(_)
Pow2(b) == IF b = 0 THEN 1 ELSE 2 * Pow2(b - 1)

RECURSIVE RMinSeq(_)
\* Math.min(...values), values non-empty
RMinSeq(s) ==
    IF Len(s) = 1 THEN s[1]
    ELSE LET m == RMinSeq(Tail(s)) IN IF RLt(s[1], m) THEN s[1] ELSE m

RECURSIVE RMaxSeq(_)
\* Math.max(...values), values non-empty
RMaxSeq(s) ==
    IF Len(s) = 1 THEN s[1]
    ELSE LET m == RMaxSeq(Tail(s)) IN IF RLt(m, s[1]) THEN s[1] ELSE m

(***************************************************************************)
(* CompressionMethod, CompressionConfig                                    *)
(***************************************************************************)
CompressionMethod == {"none", "topk", "topk_quantized", "random_k", "quantization"}

\* retention ratios the compressors of the model are configured with
KRatios == {<<1, 2>>, <<1, 1>>}

\* bit-widths the compressors of the model are configured with
QuantBits == {2, 4}

\* the constructor's default bit-width, kept by the configurations that never quantize
DefaultQuantizationBits == 8

\* the configurations the compressors of the model are constructed with
CompressionConfigs ==
    [method : {"topk_quantized"}, kRatio : KRatios,
     quantizationBits : QuantBits, errorFeedback : BOOLEAN]
    \cup
    [method : CompressionMethod \ {"topk_quantized"}, kRatio : KRatios,
     quantizationBits : {DefaultQuantizationBits}, errorFeedback : BOOLEAN]

\* values a gradient component takes in the model
GradValues == {RInt(-2), RInt(1), RInt(2)}

GradVectors(n) == [1..n -> GradValues]

(***************************************************************************)
(* GradientCompressor                                                      *)
(***************************************************************************)
NullAcc == [set |-> FALSE, val |-> <<>>]

\* the value of cOut before the first compress call
NoGradient ==
    [indices |-> <<>>, values |-> <<>>, shape |-> <<0>>, originalSize |-> 0,
     compressedSize |-> 0, compressionRatio |-> <<1, 1>>, quantizationBits |-> 0]

\* a quantization whose step divides the range by the number of levels
quantizeByLevels(values, bits) ==
    IF Len(values) = 0 THEN values
    ELSE LET minVal == RMinSeq(values)
             maxVal == RMaxSeq(values)
             rangeVal == RSub(maxVal, minVal)
         IN  IF rangeVal = RZero THEN values
             ELSE LET levels == Pow2(bits)
                      scale == RDiv(rangeVal, RInt(levels))
                  IN  [i \in 1..Len(values) |->
                         LET q == RRound(RDiv(RSub(values[i], minVal), scale))
                         IN  RAdd(minVal, RMul(RInt(q), scale))]

\* private quantize(values)
quantize(values, bits) ==
    IF Len(values) = 0 THEN values
    ELSE LET minVal == RMinSeq(values)
             maxVal == RMaxSeq(values)
             rangeVal == RSub(maxVal, minVal)
         IN  IF rangeVal = RZero THEN values
             ELSE LET levels == Pow2(bits)
                      scale == RDiv(rangeVal, RInt(levels - 1))
                  IN  [i \in 1..Len(values) |->
                         LET q == RRound(RDiv(RSub(values[i], minVal), scale))
                         IN  RAdd(minVal, RMul(RInt(q), scale))]

\* indexed.sort((a, b) => b.abs - a.abs): position (1-based) of 0-based index i
\* after the stable descending sort by absolute value
TopKRank(w, i) ==
    1 + Cardinality({j \in 0..(Len(w) - 1) :
            \/ RLt(RAbs(w[i + 1]), RAbs(w[j + 1]))
            \/ (RAbs(w[j + 1]) = RAbs(w[i + 1]) /\ j < i)})

\* indices of the first k entries of the sorted array (slice(0, k))
TopKIndices(w, k) ==
    [p \in 1..Min2(k, Len(w)) |-> CHOOSE i \in 0..(Len(w) - 1) : TopKRank(w, i) = p]

RECURSIVE FisherYates(_, _, _)
\* the shuffle loop for i = i .. 1, swapping a[i] and a[js[i]] (0-based positions)
FisherYates(a, i, js) ==
    IF i <= 0 THEN a
    ELSE LET j == js[i]
             swapped == [p \in 1..Len(a) |->
                            IF p = i + 1 THEN a[j + 1]
                            ELSE IF p = j + 1 THEN a[i + 1] ELSE a[p]]
         IN  FisherYates(swapped, i - 1, js)

\* the draws Math.floor(Math.random() * (i + 1)) for i = n-1 .. 1
RandomDraws(n) == {js \in [1..(n - 1) -> 0..(n - 1)] : \A i \in 1..(n - 1) : js[i] <= i}

RandomKIndices(n, k, js) ==
    LET allIndices == [p \in 1..n |-> p - 1]
        shuffled == FisherYates(allIndices, n - 1, js)
    IN  SubSeq(shuffled, 1, Min2(k, n))

\* new Array(originalSize).fill(0) then result[idx] = values[i] in forEach order
RECURSIVE Scatter(_, _, _, _)
Scatter(result, indices, values, i) ==
    IF i > Len(indices) THEN result
    ELSE Scatter([result EXCEPT ![indices[i] + 1] = values[i]], indices, values, i + 1)

ZeroVector(n) == [p \in 1..n |-> RZero]

\* a decompress that copies the values densely instead of scattering them to their indices
decompressDense(compressed) ==
    [p \in 1..compressed.originalSize |->
        IF p <= Len(compressed.values) THEN compressed.values[p] ELSE RZero]

\* decompress(compressed)
decompress(compressed) ==
    Scatter(ZeroVector(compressed.originalSize), compressed.indices, compressed.values, 1)

\* gradients to which the stored residual is never added
WorkingGradientsNoFeedback(cfg, acc, gradients) == gradients

\* gradients after error feedback is applied (lines 139-144)
WorkingGradients(cfg, acc, gradients) ==
    IF cfg.errorFeedback /\ acc.set
    THEN [i \in 1..Len(gradients) |-> RAdd(gradients[i], acc.val[i])]
    ELSE gradients

\* a selection count without the lower limit of one
SelectCountNoFloorOne(cfg, originalSize) ==
    RFloor(RMul(RInt(originalSize), cfg.kRatio))

\* k = Math.max(1, Math.floor(originalSize * kRatio))
SelectCount(cfg, originalSize) ==
    Max2(1, RFloor(RMul(RInt(originalSize), cfg.kRatio)))

\* the CompressedGradient returned by compress(gradients); js are the random draws
CompressResult(cfg, acc, gradients, js) ==
    LET originalSize == Len(gradients)
        working == WorkingGradients(cfg, acc, gradients)
    IN  IF cfg.method = "none"
        THEN [indices |-> [p \in 1..originalSize |-> p - 1],
              values |-> working,
              shape |-> <<originalSize>>,
              originalSize |-> originalSize,
              compressedSize |-> originalSize * 4,
              compressionRatio |-> <<1, 1>>,
              quantizationBits |-> 0]
        ELSE LET k == SelectCount(cfg, originalSize)
                 indices == IF cfg.method \in {"topk", "topk_quantized"}
                            THEN TopKIndices(working, k)
                            ELSE RandomKIndices(originalSize, k, js)
                 selected == [p \in 1..Len(indices) |-> working[indices[p] + 1]]
                 values == IF cfg.method = "topk_quantized"
                           THEN quantize(selected, cfg.quantizationBits)
                           ELSE selected
                 bitsPerValue == IF cfg.method = "topk_quantized"
                                 THEN cfg.quantizationBits ELSE 32
                 compressedSize == (k * (32 + bitsPerValue)) \div 8
             IN  [indices |-> indices,
                  values |-> values,
                  shape |-> <<originalSize>>,
                  originalSize |-> originalSize,
                  compressedSize |-> compressedSize,
                  \* x / 0 is Infinity, written <<1, 0>>
                  compressionRatio |-> IF originalSize = 0 THEN <<1, 0>>
                                       ELSE Rat(compressedSize, originalSize * 4),
                  quantizationBits |-> IF cfg.method = "topk_quantized"
                                       THEN cfg.quantizationBits ELSE 0]

\* an accumulator that stores the input minus the reconstruction and drops the
\* residual carried in
NextAccumulatorFromInput(cfg, acc, gradients, out) ==
    IF cfg.method # "none" /\ cfg.errorFeedback
    THEN LET reconstructed == Scatter(ZeroVector(Len(gradients)), out.indices, out.values, 1)
         IN  [set |-> TRUE,
              val |-> [i \in 1..Len(gradients) |-> RSub(gradients[i], reconstructed[i])]]
    ELSE acc

\* errorAccumulator after compress(gradients) returned out (lines 146, 188-194)
NextAccumulator(cfg, acc, gradients, out) ==
    IF cfg.method # "none" /\ cfg.errorFeedback
    THEN LET working == WorkingGradients(cfg, acc, gradients)
             reconstructed == Scatter(ZeroVector(Len(gradients)), out.indices, out.values, 1)
         IN  [set |-> TRUE,
              val |-> [i \in 1..Len(gradients) |-> RSub(working[i], reconstructed[i])]]
    ELSE acc

\* GradientCompressor.compress(gradients)
Compress(gradients, js) ==
    /\ cCalls < MaxCalls
    /\ cOut' = CompressResult(cConfig, errorAccumulator, gradients, js)
    /\ errorAccumulator' =
            NextAccumulator(cConfig, errorAccumulator, gradients,
                            CompressResult(cConfig, errorAccumulator, gradients, js))
    /\ cCarried' = errorAccumulator
    /\ cIn' = gradients
    /\ cPrevIn' = cIn
    /\ cCalls' = cCalls + 1
    /\ cOp' = "compress"
    /\ cDec' = <<>>
    /\ UNCHANGED <<cConfig, cLen>>
    /\ UNCHANGED otherThanComp

CompressCall ==
    \E gradients \in GradVectors(cLen) :
        IF cConfig.method \in {"random_k", "quantization"}
        THEN \E js \in RandomDraws(cLen) : Compress(gradients, js)
        ELSE Compress(gradients, <<>>)

\* GradientCompressor.decompress(compressed), applied to the last compress result
DecompressCall ==
    /\ cOp = "compress"
    /\ cDec' = decompress(cOut)
    /\ cOp' = "decompress"
    /\ UNCHANGED <<cConfig, cLen, errorAccumulator, cCalls, cIn, cPrevIn, cCarried, cOut>>
    /\ UNCHANGED otherThanComp

(***************************************************************************)
(* CompressionConfig: the constructor and the static factories             *)
(***************************************************************************)
\* the number NaN among the rationals; every comparison with it is false
NaN == <<0, 0>>

IsNaN(x) == x[2] = 0

\* a <= b on JS numbers
NumLe(a, b) == ~IsNaN(a) /\ ~IsNaN(b) /\ RLe(a, b)

\* a > b on JS numbers
NumGt(a, b) == ~IsNaN(a) /\ ~IsNaN(b) /\ RLt(b, a)

Unset == [set |-> FALSE, val |-> 0]

Given(v) == [set |-> TRUE, val |-> v]

\* options.field ?? default
OrDefault(option, default) == IF option.set THEN option.val ELSE default

DefaultKRatio == <<1, 100>>

ValidQuantizationBits == {2, 4, 8, 16, 32}

\* what a construction that threw leaves in the caller's hands
NoConfig == [method |-> "", kRatio |-> RZero, quantizationBits |-> 0, errorFeedback |-> FALSE]

\* this.kRatio <= 0 || this.kRatio > 1
KRatioRejected(kRatio) == NumLe(kRatio, RZero) \/ NumGt(kRatio, RInt(1))

\* new CompressionConfig(options): [error, config]; the seed field is stored and
\* never read, and is left out
CompressionConfigNew(options) ==
    LET config == [method |-> OrDefault(options.method, "topk_quantized"),
                   kRatio |-> OrDefault(options.kRatio, DefaultKRatio),
                   quantizationBits |-> OrDefault(options.quantizationBits,
                                                  DefaultQuantizationBits),
                   errorFeedback |-> OrDefault(options.errorFeedback, TRUE)]
    IN  IF KRatioRejected(config.kRatio)
        THEN [error |-> "kRatio must be between 0 and 1", config |-> NoConfig]
        ELSE IF config.quantizationBits \notin ValidQuantizationBits
        THEN [error |-> "quantizationBits must be 2, 4, 8, 16, or 32", config |-> NoConfig]
        ELSE [error |-> "", config |-> config]

highCompression ==
    [method |-> Given("topk_quantized"), kRatio |-> Given(<<1, 1000>>),
     quantizationBits |-> Given(4), errorFeedback |-> Given(TRUE)]

balanced ==
    [method |-> Given("topk_quantized"), kRatio |-> Given(<<1, 100>>),
     quantizationBits |-> Given(8), errorFeedback |-> Given(TRUE)]

lowCompression ==
    [method |-> Given("quantization"), kRatio |-> Given(<<1, 1>>),
     quantizationBits |-> Given(16), errorFeedback |-> Given(FALSE)]

\* kRatio arguments of the model: zero, negative, the interior, both ends of
\* the interval, above it, and NaN
KRatioArgs == {RZero, <<-1, 2>>, <<1, 1000>>, <<1, 2>>, <<1, 1>>, <<3, 2>>, NaN}

\* quantizationBits arguments of the model
QuantBitsArgs == {0, 1, 2, 3, 4, 8, 16, 32, 64}

Optional(S) == {Unset} \cup {Given(v) : v \in S}

ConfigOptions ==
    [method : Optional(CompressionMethod), kRatio : Optional(KRatioArgs),
     quantizationBits : Optional(QuantBitsArgs), errorFeedback : Optional(BOOLEAN)]

NoOptions == [method |-> Unset, kRatio |-> Unset, quantizationBits |-> Unset,
              errorFeedback |-> Unset]

Construct(op, options) ==
    /\ newOp' = op
    /\ newOptions' = options
    /\ newError' = CompressionConfigNew(options).error
    /\ newConfig' = CompressionConfigNew(options).config
    /\ UNCHANGED otherThanConfig

NewConfigCall == \E options \in ConfigOptions : Construct("new", options)

HighCompressionCall == Construct("highCompression", highCompression)

BalancedCall == Construct("balanced", balanced)

LowCompressionCall == Construct("lowCompression", lowCompression)

(***************************************************************************)
(* AggregationStrategy, GradientAggregator                                 *)
(***************************************************************************)
AggregationStrategy == {"fedavg", "async_fedavg", "weighted_avg"}

\* ids of the nodes that report to the aggregator
AggNodes == {"orbital-1", "orbital-2", "ground-1"}

\* sample counts the nodes report
SampleCounts == {1, 3}

\* the configuration a reporting node compresses with
ClientConfig(method) ==
    [method |-> method, kRatio |-> <<1, 2>>,
     quantizationBits |-> DefaultQuantizationBits, errorFeedback |-> FALSE]

\* the CompressedGradients the aggregator receives, as FederatedClient.compress
\* returns them for gradient vectors of length ModelLen: one uncompressed (dense)
\* and one top-k at ratio 1/2 (sparse)
AggGradients ==
    {CompressResult(ClientConfig("none"), NullAcc,
                    [i \in 1..ModelLen |-> IF i = 1 THEN RInt(-2) ELSE RInt(1)], <<>>),
     CompressResult(ClientConfig("topk"), NullAcc,
                    [i \in 1..ModelLen |-> IF i = ModelLen THEN RInt(2) ELSE RInt(1)], <<>>)}

AggConfigs ==
    [strategy : AggregationStrategy,
     minParticipants : 0..MaxMinParticipants,
     \* modelSize?: number; set = FALSE is undefined
     modelSize : {[set |-> FALSE, val |-> 0], [set |-> TRUE, val |-> ModelLen]}]

\* a Map.set that appends the entry without looking for the key
MapAppend(map, nodeId, gradient, samples) ==
    Append(map, [nodeId |-> nodeId, gradient |-> gradient, samples |-> samples])

\* Map.set(nodeId, {gradient, samples}): an existing key keeps its position
MapSet(map, nodeId, gradient, samples) ==
    LET entry == [nodeId |-> nodeId, gradient |-> gradient, samples |-> samples]
    IN  IF \E p \in 1..Len(map) : map[p].nodeId = nodeId
        THEN [p \in 1..Len(map) |-> IF map[p].nodeId = nodeId THEN entry ELSE map[p]]
        ELSE Append(map, entry)

\* get numParticipants
numParticipants == Len(pendingGradients)

\* a readiness test that wants more than minParticipants
readyToAggregateStrict == numParticipants > aConfig.minParticipants

\* readyToAggregate()
readyToAggregate == numParticipants >= aConfig.minParticipants

RECURSIVE SumSamples(_, _)
\* totalSamples += samples over the entries p..Len(map)
SumSamples(map, p) ==
    IF p > Len(map) THEN 0 ELSE map[p].samples + SumSamples(map, p + 1)

RECURSIVE Accumulate(_, _, _, _)
\* gradient.indices.forEach((idx, i) => aggregated[idx] += gradient.values[i] * weight)
Accumulate(aggregated, gradient, weight, i) ==
    IF i > Len(gradient.indices) THEN aggregated
    ELSE LET idx == gradient.indices[i]
         IN  Accumulate([aggregated EXCEPT ![idx + 1] =
                            RAdd(aggregated[idx + 1], RMul(gradient.values[i], weight))],
                        gradient, weight, i + 1)

RECURSIVE asyncFedAvgFrom(_, _, _)
asyncFedAvgFrom(map, aggregated, p) ==
    IF p > Len(map) THEN aggregated
    ELSE asyncFedAvgFrom(map,
            Accumulate(aggregated, map[p].gradient, Rat(1, Len(map)), 1), p + 1)

\* private asyncFedAvg(modelSize)
asyncFedAvg(map, modelSize) == asyncFedAvgFrom(map, ZeroVector(modelSize), 1)

\* a fedAvg that ignores the sample counts
fedAvgEqualWeights(map, modelSize) == asyncFedAvg(map, modelSize)

RECURSIVE fedAvgFrom(_, _, _, _)
fedAvgFrom(map, totalSamples, aggregated, p) ==
    IF p > Len(map) THEN aggregated
    ELSE fedAvgFrom(map, totalSamples,
            Accumulate(aggregated, map[p].gradient, Rat(map[p].samples, totalSamples), 1),
            p + 1)

\* private fedAvg(modelSize)
fedAvg(map, modelSize) ==
    fedAvgFrom(map, SumSamples(map, 1), ZeroVector(modelSize), 1)

\* const modelSize = this.modelSize ?? first.gradient.originalSize
EffectiveModelSize(cfg, map) ==
    IF cfg.modelSize.set THEN cfg.modelSize.val ELSE map[1].gradient.originalSize

\* the vector aggregate() returns for a non-empty pending map
AggregateResult(cfg, map) ==
    LET modelSize == EffectiveModelSize(cfg, map)
    IN  IF cfg.strategy = "fedavg" THEN fedAvg(map, modelSize)
        ELSE IF cfg.strategy = "weighted_avg" THEN fedAvg(map, modelSize)
        ELSE asyncFedAvg(map, modelSize)

NoContribution == [set |-> FALSE, gradient |-> NoGradient, samples |-> 0]

NoneReceived == [n \in AggNodes |-> NoContribution]

NothingBefore == [pending |-> <<>>, round |-> 0]

\* the map receiveGradients leaves
PendingAfterReceive(map, nodeId, gradient, samples) ==
    MapSet(map, nodeId, gradient, samples)

\* GradientAggregator.receiveGradients(nodeId, gradients, samples)
ReceiveGradientsCall ==
    \E nodeId \in AggNodes, gradient \in AggGradients, samples \in SampleCounts :
        /\ pendingGradients' = PendingAfterReceive(pendingGradients, nodeId, gradient, samples)
        /\ aLatest' = [aLatest EXCEPT ![nodeId] =
                          [set |-> TRUE, gradient |-> gradient, samples |-> samples]]
        /\ aOp' = "receive"
        /\ aError' = FALSE
        /\ aResult' = <<>>
        /\ aBefore' = NothingBefore
        /\ aIncluded' = NoneReceived
        /\ UNCHANGED <<aConfig, round, aReturned>>
        /\ UNCHANGED otherThanAgg

\* the bookkeeping of the model around any aggregate call
AggregateBookkeeping ==
    /\ aOp' = "aggregate"
    /\ aBefore' = [pending |-> pendingGradients, round |-> round]
    /\ aIncluded' = aLatest
    /\ UNCHANGED aConfig
    /\ UNCHANGED otherThanAgg

\* aggregate() throwing "No gradients to aggregate"
AggregateThrows ==
    /\ aError' = TRUE
    /\ aResult' = <<>>
    /\ UNCHANGED <<pendingGradients, round, aLatest, aReturned>>

\* an aggregate() that returns a result and keeps the contributions pending
AggregateReturnsKeeping ==
    /\ round < MaxRounds
    /\ aError' = FALSE
    /\ aResult' = AggregateResult(aConfig, pendingGradients)
    /\ pendingGradients' = pendingGradients
    /\ round' = round + 1
    /\ aLatest' = NoneReceived
    /\ aReturned' = aReturned + 1

\* aggregate() returning a result
AggregateReturns ==
    /\ round < MaxRounds
    /\ aError' = FALSE
    /\ aResult' = AggregateResult(aConfig, pendingGradients)
    /\ pendingGradients' = <<>>
    /\ round' = round + 1
    /\ aLatest' = NoneReceived
    /\ aReturned' = aReturned + 1

\* an aggregate() without the check for an empty pending map
AggregateCallUnguarded ==
    /\ AggregateBookkeeping
    /\ round < MaxRounds
    /\ aError' = FALSE
    /\ aResult' = IF pendingGradients = <<>> THEN <<>>
                  ELSE AggregateResult(aConfig, pendingGradients)
    /\ pendingGradients' = <<>>
    /\ round' = round + 1
    /\ aLatest' = NoneReceived
    /\ aReturned' = aReturned + 1

\* an aggregate() that throws until readyToAggregate() holds
AggregateCallWhenReady ==
    /\ AggregateBookkeeping
    /\ IF Len(pendingGradients) = 0 \/ ~readyToAggregate
       THEN AggregateThrows
       ELSE AggregateReturns

\* GradientAggregator.aggregate()
AggregateCall ==
    /\ AggregateBookkeeping
    /\ IF Len(pendingGradients) = 0
       THEN AggregateThrows
       ELSE AggregateReturns

(***************************************************************************)
(* Priority, GroundStation, ContactWindow, SyncTask                        *)
(* Times are integer milliseconds (Date.getTime()) counted from the        *)
(* construction of the scheduler; latitudes and the inclination are in     *)
(* tenths of a degree.                                                     *)
(***************************************************************************)
\* enum Priority { CRITICAL = 0, HIGH = 1, NORMAL = 2, LOW = 3 }
Priority == 0..3

HourMs == 3600000

MinuteMs == 60000

BytesPerMb == 1048576

\* an hoursMap that gives NORMAL tasks a day
DefaultDeadlineHoursDay(priority) ==
    CASE priority = 0 -> 1
      [] priority = 1 -> 4
      [] priority = 2 -> 24
      [] OTHER -> 48

\* hoursMap in addTask
DefaultDeadlineHours(priority) ==
    CASE priority = 0 -> 1
      [] priority = 1 -> 4
      [] priority = 2 -> 12
      [] OTHER -> 48

\* createGroundStation(name, latitude, longitude, options)
createGroundStation(name, latitude, longitude, bandwidthMbps, minElevationDeg) ==
    [name |-> name, latitude |-> latitude, longitude |-> longitude, elevationM |-> 0,
     bandwidthMbps |-> bandwidthMbps, minElevationDeg |-> minElevationDeg]

\* the ground station networks the schedulers of the model are constructed with;
\* bandwidths are a few Mbps so that byte counts stay within 32 bits
StationNetworks ==
    {<<createGroundStation("Kourou", 52, -528, 1, 5)>>,
     <<createGroundStation("Svalbard", 782, 154, 2, 5),
       createGroundStation("Toulouse", 436, 14, 2, 5),
       createGroundStation("Kourou", 52, -528, 1, 5)>>,
     <<createGroundStation("Perth", -319, 1159, 2, 30),
       createGroundStation("Paris", 489, 23, 1, 5),
       createGroundStation("Toulouse", 436, 14, 2, 5)>>}

\* the default orbitInclinationDeg, 51.6
OrbitInclinationTenths == 516

\* floor of 24 h / (orbitsPerDay * 0.3) in ms at the default altitude of 550 km
\* (orbitsPerDay = 15.0782); Date arithmetic truncates to whole ms
PassIntervalNearMs == 19100423

\* floor of 24 h / (orbitsPerDay * 0.15) in ms at the default altitude of 550 km
PassIntervalFarMs == 38200847

\* estimatePassesPerDay(stationLat), as the interval between passes; 0 = no passes
PassIntervalMs(stationLat) ==
    LET absLat == Abs(stationLat)
    IN  IF absLat > OrbitInclinationTenths + 100 THEN 0
        ELSE IF absLat > OrbitInclinationTenths - 100 THEN PassIntervalNearMs
        ELSE PassIntervalFarMs

\* estimatePassDuration(stationLat) in ms: 8 min, times 1.2 near the inclination
estimatePassDuration(stationLat) ==
    IF Abs(stationLat) > OrbitInclinationTenths - 50 THEN (8 * MinuteMs * 12) \div 10
    ELSE 8 * MinuteMs

\* estimateMaxElevation(stationLat)
estimateMaxElevation(stationLat) ==
    LET latDiff == Abs(Abs(stationLat) - OrbitInclinationTenths)
    IN  IF latDiff < 50 THEN 70
        ELSE IF latDiff < 150 THEN 45
        ELSE IF latDiff < 250 THEN 25
        ELSE 10

RECURSIVE StationWindows(_, _, _)
\* the while (current < end) loop of getContactWindows for one station
StationWindows(station, current, end) ==
    IF current >= end THEN <<>>
    ELSE LET window == [station |-> station,
                        startTime |-> current,
                        endTime |-> current + estimatePassDuration(station.latitude),
                        maxElevationDeg |-> estimateMaxElevation(station.latitude),
                        availableBandwidthMbps |-> station.bandwidthMbps]
             rest == StationWindows(station, current + PassIntervalMs(station.latitude), end)
         IN  IF estimateMaxElevation(station.latitude) > station.minElevationDeg
             THEN <<window>> \o rest
             ELSE rest

RECURSIVE AllStationWindows(_, _, _, _)
\* the for (const station of this.groundStations) loop of getContactWindows
AllStationWindows(stations, s, start, end) ==
    IF s > Len(stations) THEN <<>>
    ELSE (IF PassIntervalMs(stations[s].latitude) = 0 THEN <<>>
          ELSE StationWindows(stations[s], start, end))
         \o AllStationWindows(stations, s + 1, start, end)

WindowBefore(a, b) == a.startTime < b.startTime

\* windows.sort((a, b) => a.startTime - b.startTime): Array.prototype.sort is stable
SortWindows(windows) ==
    LET rank(i) == 1 + Cardinality({j \in 1..Len(windows) :
                        \/ WindowBefore(windows[j], windows[i])
                        \/ (~WindowBefore(windows[i], windows[j]) /\ j < i)})
    IN  [p \in 1..Len(windows) |-> windows[CHOOSE i \in 1..Len(windows) : rank(i) = p]]

\* getContactWindows({startTime, hours})
getContactWindows(stations, start, hours) ==
    SortWindows(AllStationWindows(stations, 1, start, start + hours * HourMs))

\* getContactWindowDurationSeconds(window), a rational
getContactWindowDurationSeconds(window) == Rat(window.endTime - window.startTime, 1000)

\* getContactWindowCapacityMb(window), a rational
getContactWindowCapacityMb(window) ==
    RDiv(RMul(RInt(window.availableBandwidthMbps), getContactWindowDurationSeconds(window)),
         RInt(8))

\* Math.floor(getContactWindowCapacityMb(window) * 1024 * 1024)
CapacityBytes(window) ==
    RFloor(RMul(getContactWindowCapacityMb(window), RInt(BytesPerMb)))

(***************************************************************************)
(* PriorityQueue                                                           *)
(***************************************************************************)
\* a comparator that ignores the priority
TaskBeforeByDeadline(a, b) == a.deadline < b.deadline

\* the comparator of addTask and getTasksForWindow
TaskBefore(a, b) ==
    IF a.priority # b.priority THEN a.priority < b.priority
    ELSE a.deadline < b.deadline

\* tasks.sort(by priority, then deadline): Array.prototype.sort is stable
SortTasks(tasks) ==
    LET rank(i) == 1 + Cardinality({j \in 1..Len(tasks) :
                        \/ TaskBefore(tasks[j], tasks[i])
                        \/ (~TaskBefore(tasks[i], tasks[j]) /\ j < i)})
    IN  [p \in 1..Len(tasks) |-> tasks[CHOOSE i \in 1..Len(tasks) : rank(i) = p]]

\* the heap after a push that is not followed by a sort
HeapAfterPush(h, task) == Append(h, task)

\* the heap after addTask pushed task: this.heap.push(task); this.heap.sort(...)
HeapAfterAdd(h, task) == SortTasks(Append(h, task))

RECURSIVE SelectTasksNoDecrement(_, _, _)
\* a selection that tests every task against the whole capacity
SelectTasksNoDecrement(candidates, i, remaining) ==
    IF i > Len(candidates) THEN <<>>
    ELSE IF candidates[i].dataSizeBytes <= remaining
         THEN <<candidates[i]>> \o SelectTasksNoDecrement(candidates, i + 1, remaining)
         ELSE SelectTasksNoDecrement(candidates, i + 1, remaining)

RECURSIVE SelectTasksUntilMiss(_, _, _)
\* a selection that stops at the first task that does not fit
SelectTasksUntilMiss(candidates, i, remaining) ==
    IF i > Len(candidates) THEN <<>>
    ELSE IF candidates[i].dataSizeBytes <= remaining
         THEN <<candidates[i]>> \o
              SelectTasksUntilMiss(candidates, i + 1,
                                   remaining - candidates[i].dataSizeBytes)
         ELSE <<>>

RECURSIVE SelectTasks(_, _, _)
\* for (const task of candidates) if (task.dataSizeBytes <= remaining) ...
SelectTasks(candidates, i, remaining) ==
    IF i > Len(candidates) THEN <<>>
    ELSE IF candidates[i].dataSizeBytes <= remaining
         THEN <<candidates[i]>> \o
              SelectTasks(candidates, i + 1, remaining - candidates[i].dataSizeBytes)
         ELSE SelectTasks(candidates, i + 1, remaining)

\* a removal that leaves the heap as it is
RemoveNothing(h, taskId) == h

\* idx = heap.findIndex(t => t.taskId === taskId); if (idx >= 0) heap.splice(idx, 1)
RemoveTask(h, taskId) ==
    IF \E p \in 1..Len(h) : h[p].taskId = taskId
    THEN LET idx == CHOOSE p \in 1..Len(h) :
                        h[p].taskId = taskId /\ \A q \in 1..(p - 1) : h[q].taskId # taskId
         IN  SubSeq(h, 1, idx - 1) \o SubSeq(h, idx + 1, Len(h))
    ELSE h

RECURSIVE RemoveTasks(_, _, _)
RemoveTasks(h, tasks, i) ==
    IF i > Len(tasks) THEN h
    ELSE RemoveTasks(RemoveTask(h, tasks[i].taskId), tasks, i + 1)

\* getTasksForWindow(capacityBytes): the tasks returned and the heap left
getTasksForWindow(h, capacityBytes) ==
    LET candidates == SortTasks(h)
        tasks == SelectTasks(candidates, 1, capacityBytes)
    IN  [tasks |-> tasks, heap |-> RemoveTasks(h, tasks, 1)]

(***************************************************************************)
(* SyncScheduler                                                           *)
(***************************************************************************)
RECURSIVE OptimizeFrom(_, _, _, _)
\* the for (const window of windows) loop of optimize: schedule and heap left
OptimizeFrom(windows, w, h, sched) ==
    IF w > Len(windows) THEN [schedule |-> sched, heap |-> h]
    ELSE LET got == getTasksForWindow(h, CapacityBytes(windows[w]))
         IN  OptimizeFrom(windows, w + 1, got.heap,
                          IF Len(got.tasks) > 0
                          THEN Append(sched, [window |-> windows[w], tasks |-> got.tasks])
                          ELSE sched)

\* node ids tasks are enqueued for
SyncNodes == {"sat-1"}

\* payload sizes enqueued: 20 MB, 40 MB, 100 MB (windows hold 60, 72 or 120 MB)
DataSizes == {20 * BytesPerMb, 40 * BytesPerMb, 100 * BytesPerMb}

\* deadlines given explicitly to scheduleSync, in hours from the call
ExplicitDeadlineHours == {1}

\* the hours arguments of optimize
Horizons == {6, 24}

NoTask ==
    [priority |-> 0, deadline |-> 0, nodeId |-> "", dataSizeBytes |-> 0,
     taskId |-> 0, description |-> "", createdAt |-> 0]

\* getScheduleSummary() on schedule sch and queue h; totalDataMb and pendingDataMb
\* are in hundredths of a megabyte
getScheduleSummary(sch, h) ==
    LET RECURSIVE Bytes(_, _)
        Bytes(tasks, i) ==
            IF i > Len(tasks) THEN 0 ELSE tasks[i].dataSizeBytes + Bytes(tasks, i + 1)
        RECURSIVE Over(_, _)
        Over(i, counting) ==
            IF i > Len(sch) THEN 0
            ELSE (IF counting THEN Len(sch[i].tasks) ELSE Bytes(sch[i].tasks, 1))
                 + Over(i + 1, counting)
        Hundredths(bytes) == RRound(RMul(Rat(bytes, BytesPerMb), RInt(100)))
    IN  [scheduledWindows |-> Len(sch),
         totalTasksScheduled |-> Over(1, TRUE),
         totalDataMb |-> Hundredths(Over(1, FALSE)),
         pendingTasks |-> Len(h),
         pendingDataMb |-> Hundredths(Bytes(h, 1))]

\* no getScheduleSummary result at hand
NoSummary == [scheduledWindows |-> 0, totalTasksScheduled |-> 0, totalDataMb |-> 0,
              pendingTasks |-> 0, pendingDataMb |-> 0]

\* Date.now() moving on by an hour between calls
ClockTick ==
    /\ now < MaxClockHours * HourMs
    /\ now' = now + HourMs
    /\ UNCHANGED <<groundStations, heap, taskCounter, schedule, sOp, sPopped,
                   sBefore, sCapacity, sGot, sDeadline, summary, sDirect>>
    /\ UNCHANGED otherThanSched

\* SyncScheduler.scheduleSync -> PriorityQueue.addTask; taskId n stands for `task_${n}`
ScheduleSyncCall ==
    \E nodeId \in SyncNodes, dataSizeBytes \in DataSizes, priority \in Priority,
       given \in {Unset} \cup {Given(now + h * HourMs) : h \in ExplicitDeadlineHours} :
        /\ taskCounter < MaxTasks
        /\ taskCounter' = taskCounter + 1
        /\ LET deadline == IF ~given.set
                           THEN now + DefaultDeadlineHours(priority) * 60 * 60 * 1000
                           ELSE given.val
               task == [priority |-> priority, deadline |-> deadline, nodeId |-> nodeId,
                        dataSizeBytes |-> dataSizeBytes, taskId |-> taskCounter + 1,
                        description |-> "", createdAt |-> now]
           IN  heap' = HeapAfterAdd(heap, task)
        /\ sOp' = "scheduleSync"
        /\ sPopped' = NoTask
        /\ sBefore' = <<>>
        /\ sCapacity' = 0
        /\ sGot' = <<>>
        /\ sDeadline' = given
        /\ summary' = NoSummary
        /\ sDirect' = sDirect
        /\ UNCHANGED <<groundStations, schedule, now>>
        /\ UNCHANGED otherThanSched

\* PriorityQueue.popTask() on the scheduler's queue
PopTaskCall ==
    /\ sOp' = "popTask"
    /\ IF Len(heap) = 0
       THEN sPopped' = NoTask /\ heap' = heap
       ELSE sPopped' = Head(heap) /\ heap' = Tail(heap)
    /\ sBefore' = heap
    /\ sCapacity' = 0
    /\ sGot' = <<>>
    /\ sDeadline' = Unset
    /\ summary' = NoSummary
    /\ sDirect' = (sDirect \/ Len(heap) > 0)
    /\ UNCHANGED <<groundStations, taskCounter, schedule, now>>
    /\ UNCHANGED otherThanSched

\* PriorityQueue.peekTask() on the scheduler's queue
PeekTaskCall ==
    /\ sOp' = "peekTask"
    /\ sPopped' = IF Len(heap) = 0 THEN NoTask ELSE heap[1]
    /\ sBefore' = <<>>
    /\ sCapacity' = 0
    /\ sGot' = <<>>
    /\ sDeadline' = Unset
    /\ summary' = NoSummary
    /\ sDirect' = sDirect
    /\ UNCHANGED <<groundStations, heap, taskCounter, schedule, now>>
    /\ UNCHANGED otherThanSched

\* the capacityBytes arguments of direct getTasksForWindow calls: 0, 30, 60, 120 MB
Capacities == {0, 30 * BytesPerMb, 60 * BytesPerMb, 120 * BytesPerMb}

\* PriorityQueue.getTasksForWindow(capacityBytes) on the scheduler's queue
GetTasksForWindowCall ==
    \E capacityBytes \in Capacities :
        /\ sOp' = "getTasksForWindow"
        /\ sGot' = getTasksForWindow(heap, capacityBytes).tasks
        /\ sDeadline' = Unset
        /\ summary' = NoSummary
        /\ sDirect' = (sDirect \/ Len(getTasksForWindow(heap, capacityBytes).tasks) > 0)
        /\ heap' = getTasksForWindow(heap, capacityBytes).heap
        /\ sCapacity' = capacityBytes
        /\ sBefore' = heap
        /\ sPopped' = NoTask
        /\ UNCHANGED <<groundStations, taskCounter, schedule, now>>
        /\ UNCHANGED otherThanSched

\* SyncScheduler.optimize(hours)
OptimizeCall ==
    \E hours \in Horizons :
        /\ LET windows == getContactWindows(groundStations, now, hours)
               result == OptimizeFrom(windows, 1, heap, <<>>)
           IN  /\ schedule' = result.schedule
               /\ heap' = result.heap
        /\ sOp' = "optimize"
        /\ sPopped' = NoTask
        /\ sBefore' = heap
        /\ sCapacity' = 0
        /\ sGot' = <<>>
        /\ sDeadline' = Unset
        /\ summary' = NoSummary
        /\ sDirect' = sDirect
        /\ UNCHANGED <<groundStations, taskCounter, now>>
        /\ UNCHANGED otherThanSched

\* scheduler.getScheduleSummary()
GetScheduleSummaryCall ==
    /\ summary' = getScheduleSummary(schedule, heap)
    /\ sOp' = "getScheduleSummary"
    /\ sPopped' = NoTask
    /\ sBefore' = <<>>
    /\ sCapacity' = 0
    /\ sGot' = <<>>
    /\ sDeadline' = Unset
    /\ UNCHANGED <<groundStations, heap, taskCounter, schedule, now, sDirect>>
    /\ UNCHANGED otherThanSched
(***************************************************************************)
(* SpaceMesh                                                               *)
(* Node ids are sequences of characters, so that link keys                 *)
(* `${id1}-${id2}` and key.includes(nodeId) are what they are in the code. *)
(* Distances are integer metres, latencies integer nanoseconds, bandwidths *)
(* and Dijkstra distances exact rationals.                                 *)
(***************************************************************************)
\* Infinity, next to the rationals <<n, d>> with d > 0
Infinity == <<1, 0>>

\* null / undefined where a node id is expected
NoNode == <<>>

\* createOrbitalNode(nodeId, options): altitude 550, inclination 51.6 (in tenths), RAAN 0
createOrbitalNode(nodeId, meanAnomalyDeg, islRangeKm, islBandwidthGbps) ==
    [nodeId |-> nodeId, orbitAltitudeKm |-> 550, orbitInclinationDeg |-> 516, raanDeg |-> 0,
     meanAnomalyDeg |-> meanAnomalyDeg, islRangeKm |-> islRangeKm,
     islBandwidthGbps |-> islBandwidthGbps, computeTflops |-> 10]

\* the nodes handed to addNode: "a", "a-b", "c" and "b-c" along one orbit; "a" and
\* "b-c" have the link key "a-b-c" in common with "a-b" and "c"
MeshCatalog ==
    {createOrbitalNode(<<"a">>, 0, 5400, 10),
     createOrbitalNode(<<"a", "-", "b">>, 40, 5000, 10),
     createOrbitalNode(<<"c">>, 80, 5400, 10),
     createOrbitalNode(<<"b", "-", "c">>, 45, 5400, 5)}

\* the ids handed to removeNode and findRoute
MeshIds == {n.nodeId : n \in MeshCatalog}

RouteObjectives == {"latency", "bandwidth"}

\* calculateDistance(node1, node2) in metres.  The catalog's nodes share altitude,
\* inclination and RAAN, so the distance is the chord 2 * 6921 km * sin(sep / 2)
\* of their mean anomaly separation; the values are those the code computes.
calculateDistance(node1, node2) ==
    LET sep == Abs(node1.meanAnomalyDeg - node2.meanAnomalyDeg)
    IN  CASE sep = 0 -> 0
          [] sep = 5 -> 603780
          [] sep = 35 -> 4162370
          [] sep = 40 -> 4734243
          [] sep = 45 -> 5297104
          [] sep = 80 -> 8897466

\* maxLosDistance in metres: 2 * sqrt((6371 + 550)^2 - 6371^2) km
MaxLosDistanceM == 5407624

\* hasLineOfSight(node1, node2)
hasLineOfSight(node1, node2) == calculateDistance(node1, node2) <= MaxLosDistanceM

\* nanoseconds light needs for 100 km: 100 / SPEED_OF_LIGHT_KM_S seconds
LightNsPer100Km == 333564

\* (distance / SPEED_OF_LIGHT_KM_S) * 1000 ms, in nanoseconds for a distance in metres
LatencyOf(distanceM) ==
    ((distanceM \div 1000) * LightNsPer100Km
      + ((distanceM % 1000) * LightNsPer100Km) \div 1000) \div 100

\* `${id1}-${id2}`
LinkKey(id1, id2) == id1 \o <<"-">> \o id2

\* key.includes(nodeId)
Includes(key, nodeId) ==
    \E i \in 1..(Len(key) - Len(nodeId) + 1) : SubSeq(key, i, i + Len(nodeId) - 1) = nodeId

\* Map.has on the node table
HasNode(ns, nodeId) == \E i \in 1..Len(ns) : ns[i].nodeId = nodeId

\* Map.set on the node table: a known key keeps its place, a new one goes last
NodesAfterSet(ns, node) ==
    IF HasNode(ns, node.nodeId)
    THEN [i \in 1..Len(ns) |-> IF ns[i].nodeId = node.nodeId THEN node ELSE ns[i]]
    ELSE Append(ns, node)

\* Map.delete on the node table
NodesAfterDelete(ns, nodeId) == SelectSeq(ns, LAMBDA n : n.nodeId # nodeId)

\* Set.add on an adjacency set, kept in insertion order
SetAdd(members, x) ==
    IF \E i \in 1..Len(members) : members[i] = x THEN members ELSE Append(members, x)

\* Set.delete
SetDelete(members, x) == SelectSeq(members, LAMBDA y : y # x)

\* the link table without entries
NoLinks == [key \in {} |-> 0]

\* the body of updateTopology's double loop for one pair of nodes
Connect(node1, node2, mesh) ==
    LET distance == calculateDistance(node1, node2)
        maxRange == Min2(node1.islRangeKm, node2.islRangeKm)
        bandwidth == Min2(node1.islBandwidthGbps, node2.islBandwidthGbps)
        latency == LatencyOf(distance)
        id1 == node1.nodeId
        id2 == node2.nodeId
        link1 == [sourceId |-> id1, targetId |-> id2, distanceKm |-> distance,
                  bandwidthGbps |-> bandwidth, latencyMs |-> latency,
                  linkType |-> "optical", active |-> TRUE]
        link2 == [sourceId |-> id2, targetId |-> id1, distanceKm |-> distance,
                  bandwidthGbps |-> bandwidth, latencyMs |-> latency,
                  linkType |-> "optical", active |-> TRUE]
    IN  IF distance <= maxRange * 1000 /\ hasLineOfSight(node1, node2)
        THEN [links |-> (LinkKey(id2, id1) :> link2) @@ (LinkKey(id1, id2) :> link1)
                            @@ mesh.links,
              adjacency |-> [id \in DOMAIN mesh.adjacency |->
                                IF id = id1 /\ id = id2
                                THEN SetAdd(SetAdd(mesh.adjacency[id], id2), id1)
                                ELSE IF id = id1 THEN SetAdd(mesh.adjacency[id], id2)
                                ELSE IF id = id2 THEN SetAdd(mesh.adjacency[id], id1)
                                ELSE mesh.adjacency[id]]]
        ELSE mesh

RECURSIVE TopologyFrom(_, _, _, _)
\* for (i ...) for (j = i + 1 ...) over Array.from(this.nodes.keys())
TopologyFrom(ns, i, j, mesh) ==
    IF i > Len(ns) THEN mesh
    ELSE IF j > Len(ns) THEN TopologyFrom(ns, i + 1, i + 2, mesh)
    ELSE TopologyFrom(ns, i, j + 1, Connect(ns[i], ns[j], mesh))

\* an addNode that links the node it registers to the nodes in range of it
AddNodeLinking(node) ==
    LET ns == NodesAfterSet(nodes, node)
        cleared == [links |-> NoLinks,
                    adjacency |-> [id \in DOMAIN adjacency \cup {node.nodeId} |-> <<>>]]
        rebuilt == TopologyFrom(ns, 1, 2, cleared)
    IN  /\ nodes' = ns
        /\ links' = rebuilt.links
        /\ adjacency' = rebuilt.adjacency

\* addNode(node)
AddNode(node) ==
    /\ nodes' = NodesAfterSet(nodes, node)
    /\ adjacency' = [id \in DOMAIN adjacency \cup {node.nodeId} |->
                        IF id = node.nodeId THEN <<>> ELSE adjacency[id]]
    /\ UNCHANGED links

\* removeNode(nodeId)
RemoveNode(nodeId) ==
    IF ~HasNode(nodes, nodeId)
    THEN UNCHANGED <<nodes, links, adjacency>>
    ELSE /\ links' = [key \in {k \in DOMAIN links : ~Includes(k, nodeId)} |-> links[key]]
         /\ adjacency' = [id \in DOMAIN adjacency \ {nodeId} |-> SetDelete(adjacency[id], nodeId)]
         /\ nodes' = NodesAfterDelete(nodes, nodeId)

\* updateTopology()
UpdateTopology ==
    LET cleared == [links |-> NoLinks, adjacency |-> [id \in DOMAIN adjacency |-> <<>>]]
        rebuilt == TopologyFrom(nodes, 1, 2, cleared)
    IN  /\ links' = rebuilt.links
        /\ adjacency' = rebuilt.adjacency
        /\ UNCHANGED nodes

\* a.dist - b.dist < 0
DistLess(x, y) ==
    IF x = Infinity THEN FALSE ELSE IF y = Infinity THEN TRUE ELSE RLt(x, y)

\* pq.sort((a, b) => a.dist - b.dist): Array.prototype.sort is stable
SortPq(pq) ==
    LET rank(i) == 1 + Cardinality({j \in 1..Len(pq) :
                        \/ DistLess(pq[j].dist, pq[i].dist)
                        \/ (~DistLess(pq[i].dist, pq[j].dist) /\ j < i)})
    IN  [p \in 1..Len(pq) |-> pq[CHOOSE i \in 1..Len(pq) : rank(i) = p]]

\* optimizeFor === "latency" ? link.latencyMs : 1 / link.bandwidthGbps
LinkWeight(link, optimizeFor) ==
    IF optimizeFor = "latency" THEN RInt(link.latencyMs)
    ELSE RDiv(RInt(1), RInt(link.bandwidthGbps))

RECURSIVE Relax(_, _, _, _, _, _)
\* for (const neighborId of neighbors) { ... } of findRoute
Relax(ls, neighbors, k, currentId, optimizeFor, d) ==
    IF k > Len(neighbors) THEN d
    ELSE LET neighborId == neighbors[k]
             key == LinkKey(currentId, neighborId)
         IN  IF neighborId \in d.visited
             THEN Relax(ls, neighbors, k + 1, currentId, optimizeFor, d)
             ELSE IF key \notin DOMAIN ls \/ ~ls[key].active
             THEN Relax(ls, neighbors, k + 1, currentId, optimizeFor, d)
             ELSE LET newDist == RAdd(d.distances[currentId],
                                      LinkWeight(ls[key], optimizeFor))
                  IN  IF neighborId \in DOMAIN d.distances
                         /\ DistLess(newDist, d.distances[neighborId])
                      THEN Relax(ls, neighbors, k + 1, currentId, optimizeFor,
                                 [d EXCEPT !.distances[neighborId] = newDist,
                                           !.predecessors[neighborId] = currentId,
                                           !.pq = Append(@, [dist |-> newDist,
                                                             nodeId |-> neighborId])])
                      ELSE Relax(ls, neighbors, k + 1, currentId, optimizeFor, d)

RECURSIVE Dijkstra(_, _, _, _, _)
\* while (pq.length > 0) { ... } of findRoute
Dijkstra(ls, adj, destinationId, optimizeFor, d) ==
    IF Len(d.pq) = 0 THEN d
    ELSE LET sorted == SortPq(d.pq)
             currentId == sorted[1].nodeId
         IN  IF currentId \in d.visited
             THEN Dijkstra(ls, adj, destinationId, optimizeFor, [d EXCEPT !.pq = Tail(sorted)])
             ELSE IF currentId = destinationId
             THEN [d EXCEPT !.pq = Tail(sorted), !.visited = @ \cup {currentId}]
             ELSE Dijkstra(ls, adj, destinationId, optimizeFor,
                           Relax(ls,
                                 IF currentId \in DOMAIN adj THEN adj[currentId] ELSE <<>>,
                                 1, currentId, optimizeFor,
                                 [d EXCEPT !.pq = Tail(sorted),
                                           !.visited = @ \cup {currentId}]))

RECURSIVE ReconstructPath(_, _, _)
\* while (current !== null) { path.unshift(current); current = predecessors.get(current) ?? null }
ReconstructPath(current, predecessors, path) ==
    IF current = NoNode THEN path
    ELSE ReconstructPath(IF current \in DOMAIN predecessors THEN predecessors[current]
                         ELSE NoNode,
                         predecessors, <<current>> \o path)

RECURSIVE RouteMetrics(_, _, _, _)
\* the metrics loop of findRoute over path[i], path[i + 1]
RouteMetrics(ls, path, i, acc) ==
    IF i > Len(path) - 1 THEN acc
    ELSE LET key == LinkKey(path[i], path[i + 1])
         IN  IF key \in DOMAIN ls
             THEN RouteMetrics(ls, path, i + 1,
                    [totalDistance |-> acc.totalDistance + ls[key].distanceKm,
                     totalLatency |-> acc.totalLatency + ls[key].latencyMs,
                     minBandwidth |-> IF acc.minBandwidth = Infinity
                                         \/ RLt(RInt(ls[key].bandwidthGbps), acc.minBandwidth)
                                      THEN RInt(ls[key].bandwidthGbps)
                                      ELSE acc.minBandwidth])
             ELSE RouteMetrics(ls, path, i + 1, acc)

\* Math.round(x * 10^k) / 10^k for x >= 0 held as an integer count of units,
\* unit being 10^k units: the nearest multiple of unit, halves up
RoundToUnit(x, unit) == ((2 * x + unit) \div (2 * unit)) * unit

\* a route whose path carries the source although none was found
SourceOnlyRoute(sourceId, destinationId) ==
    [sourceId |-> sourceId, destinationId |-> destinationId, path |-> <<sourceId>>,
     totalDistanceKm |-> 0, totalLatencyMs |-> 0, minBandwidthGbps |-> RZero, numHops |-> 0]

\* the Route returned when a node is unknown or the destination unreachable
EmptyRoute(sourceId, destinationId) ==
    [sourceId |-> sourceId, destinationId |-> destinationId, path |-> <<>>,
     totalDistanceKm |-> 0, totalLatencyMs |-> 0, minBandwidthGbps |-> RZero, numHops |-> 0]

\* a route to the source itself reported as if the node were unreachable
SelfRouteWithoutPath(sourceId, destinationId) == EmptyRoute(sourceId, destinationId)

\* the Route returned when sourceId === destinationId
SelfRoute(sourceId, destinationId) ==
    [sourceId |-> sourceId, destinationId |-> destinationId, path |-> <<sourceId>>,
     totalDistanceKm |-> 0, totalLatencyMs |-> 0, minBandwidthGbps |-> Infinity,
     numHops |-> 0]

\* findRoute(sourceId, destinationId, optimizeFor) on node table ns, link table ls and
\* adjacency adj; totalDistanceKm is in metres, totalLatencyMs in nanoseconds
findRoute(ns, ls, adj, sourceId, destinationId, optimizeFor) ==
    IF ~HasNode(ns, sourceId) \/ ~HasNode(ns, destinationId)
    THEN EmptyRoute(sourceId, destinationId)
    ELSE IF sourceId = destinationId
    THEN SelfRoute(sourceId, destinationId)
    ELSE LET ids == {ns[i].nodeId : i \in 1..Len(ns)}
             start == [distances |-> [id \in ids |-> IF id = sourceId THEN RZero ELSE Infinity],
                       predecessors |-> [id \in ids |-> NoNode],
                       visited |-> {},
                       pq |-> <<[dist |-> RZero, nodeId |-> sourceId]>>]
             done == Dijkstra(ls, adj, destinationId, optimizeFor, start)
         IN  IF done.distances[destinationId] = Infinity
             THEN EmptyRoute(sourceId, destinationId)
             ELSE LET path == ReconstructPath(destinationId, done.predecessors, <<>>)
                      metrics == RouteMetrics(ls, path, 1,
                                    [totalDistance |-> 0, totalLatency |-> 0,
                                     minBandwidth |-> Infinity])
                  IN  [sourceId |-> sourceId, destinationId |-> destinationId,
                       path |-> path,
                       totalDistanceKm |-> RoundToUnit(metrics.totalDistance, 10),
                       totalLatencyMs |-> RoundToUnit(metrics.totalLatency, 1000),
                       minBandwidthGbps |-> IF metrics.minBandwidth = Infinity THEN RZero
                                            ELSE metrics.minBandwidth,
                       numHops |-> Len(path) - 1]

\* no findRoute result at hand
NoRoute == EmptyRoute(NoNode, NoNode)

\* getMeshStats() on node table ns and link table ls.  avgLinksPerNode is in
\* hundredths, avgLinkDistanceKm in metres (a multiple of 10: two decimals of a km)
getMeshStats(ns, ls) ==
    LET \* UTF-16 code units of the characters node ids are made of
        code == [ch \in {"-", "a", "b", "c"} |->
                    CASE ch = "-" -> 45 [] ch = "a" -> 97 [] ch = "b" -> 98 [] OTHER -> 99]
        \* the string comparison of Array.prototype.sort without a comparator
        Before(x, y) ==
            \E k \in 1..(Len(x) + 1) :
                /\ \A j \in 1..(k - 1) : j <= Len(y) /\ x[j] = y[j]
                /\ k <= Len(y)
                /\ (k <= Len(x) => code[x[k]] < code[y[k]])
        \* [link.sourceId, link.targetId].sort().join("-")
        Sorted(link) ==
            IF Before(link.targetId, link.sourceId)
            THEN LinkKey(link.targetId, link.sourceId)
            ELSE LinkKey(link.sourceId, link.targetId)
        activeLinks == {Sorted(ls[key]) : key \in {k \in DOMAIN ls : ls[k].active}}
        \* the first "-" of a string (one past its end when it has none)
        Hyphen(x) ==
            IF \E i \in 1..Len(x) : x[i] = "-"
            THEN CHOOSE i \in 1..Len(x) : x[i] = "-" /\ \A j \in 1..(i - 1) : x[j] # "-"
            ELSE Len(x) + 1
        \* const [id1, id2] = key.split("-"); `${id1}-${id2}`
        Looked(key) ==
            LET id1 == [i \in 1..(Hyphen(key) - 1) |-> key[i]]
                rest == [i \in 1..(Len(key) - Hyphen(key)) |-> key[Hyphen(key) + i]]
                id2 == [i \in 1..(Hyphen(rest) - 1) |-> rest[i]]
            IN  LinkKey(id1, id2)
        found == {key \in activeLinks : Looked(key) \in DOMAIN ls}
        RECURSIVE Total(_, _)
        Total(keys, field) ==
            IF keys = {} THEN 0
            ELSE LET key == CHOOSE k \in keys : TRUE
                 IN  (IF field = "bandwidthGbps" THEN ls[Looked(key)].bandwidthGbps
                      ELSE ls[Looked(key)].distanceKm) + Total(keys \ {key}, field)
        numActiveLinks == Cardinality(activeLinks)
    IN  [totalNodes |-> Len(ns),
         activeLinks |-> numActiveLinks,
         avgLinksPerNode |-> IF Len(ns) > 0 THEN RRound(<<2 * numActiveLinks * 100, Len(ns)>>)
                             ELSE 0,
         totalBandwidthGbps |-> Total(found, "bandwidthGbps"),
         avgLinkDistanceKm |-> IF numActiveLinks > 0
                               THEN 10 * RRound(<<Total(found, "distanceKm"),
                                                  10 * numActiveLinks>>)
                               ELSE 0]

\* no getMeshStats result at hand
NoStats == [totalNodes |-> 0, activeLinks |-> 0, avgLinksPerNode |-> 0,
            totalBandwidthGbps |-> 0, avgLinkDistanceKm |-> 0]

\* the value of meshBefore when the last call was neither addNode nor removeNode
NothingRemoved == [nodes |-> <<>>, links |-> NoLinks, adjacency |-> [id \in {} |-> <<>>]]

AddNodeCall ==
    \E node \in MeshCatalog :
        /\ AddNode(node)
        /\ route' = NoRoute
        /\ stats' = NoStats
        /\ routeObjective' = ""
        /\ meshOp' = "addNode"
        /\ removedId' = NoNode
        /\ meshBefore' = [nodes |-> nodes, links |-> links, adjacency |-> adjacency]
        /\ addedSince' = IF HasNode(nodes, node.nodeId) THEN addedSince
                         ELSE addedSince \cup {node.nodeId}
        /\ UNCHANGED otherThanMesh

RemoveNodeCall ==
    \E nodeId \in MeshIds :
        /\ RemoveNode(nodeId)
        /\ route' = NoRoute
        /\ stats' = NoStats
        /\ routeObjective' = ""
        /\ meshOp' = "removeNode"
        /\ removedId' = nodeId
        /\ meshBefore' = [nodes |-> nodes, links |-> links, adjacency |-> adjacency]
        /\ addedSince' = addedSince \ {nodeId}
        /\ UNCHANGED otherThanMesh

UpdateTopologyCall ==
    /\ UpdateTopology
    /\ route' = NoRoute
    /\ stats' = NoStats
    /\ routeObjective' = ""
    /\ meshOp' = "updateTopology"
    /\ removedId' = NoNode
    /\ meshBefore' = NothingRemoved
    /\ addedSince' = {}
    /\ UNCHANGED otherThanMesh

FindRouteCall ==
    \E sourceId \in MeshIds, destinationId \in MeshIds, objective \in RouteObjectives :
        /\ route' = findRoute(nodes, links, adjacency, sourceId, destinationId, objective)
        /\ stats' = NoStats
        /\ routeObjective' = objective
        /\ meshOp' = "findRoute"
        /\ removedId' = NoNode
        /\ meshBefore' = NothingRemoved
        /\ UNCHANGED <<nodes, links, adjacency, addedSince>>
        /\ UNCHANGED otherThanMesh

\* mesh.getMeshStats()
GetMeshStatsCall ==
    /\ stats' = getMeshStats(nodes, links)
    /\ route' = NoRoute
    /\ routeObjective' = ""
    /\ meshOp' = "getMeshStats"
    /\ removedId' = NoNode
    /\ meshBefore' = NothingRemoved
    /\ UNCHANGED <<nodes, links, adjacency, addedSince>>
    /\ UNCHANGED otherThanMesh
(***************************************************************************)
(* PartitionOptimizer                                                      *)
(* layer.flops is held in units of 10^9 flop and latencies are integer     *)
(* nanoseconds, so that (flops / (tflops * 1e12)) * 1000 ms is             *)
(* flops * 10^6 / tflops ns; the flops and Tflops of the model divide      *)
(* exactly.                                                                *)
(***************************************************************************)
\* enum OptimizationObjective
OptimizationObjective ==
    {"minimize_latency", "minimize_bandwidth", "balance", "maximize_throughput"}

\* LatencyEstimator.propagationDelayMs at the default altitude of 550 km:
\* (550 / 299792.458) * 1000 ms, in nanoseconds
PropagationDelayNs == 1834603

\* LatencyEstimator.estimateTransferTimeMs(bytesSize, true), in nanoseconds
estimateTransferTimeMs(bytesSize, pool) == (bytesSize * 8 * 1000) \div pool.uplinkBandwidthMbps

\* the layers of the model profiles: 100 or 200 Gflop, 12500 bytes in (1 ms of
\* uplink at 100 Mbps) and 12500 or 25000 bytes out, and one layer that takes
\* 25000 bytes in, so that a layer's input may or may not be the output of the
\* layer before it
LayerProfiles ==
    {l \in [name : {"layer"}, flops : {100, 200}, inputSize : {12500, 25000},
            outputSize : {12500, 25000}] :
        l.inputSize = 25000 => (l.flops = 100 /\ l.outputSize = 12500)}

\* ModelProfile.layers of the models handed to optimize
ModelProfiles == UNION {[1..n -> LayerProfiles] : n \in 0..MaxLayers}

\* the compute and uplink capacities the optimizers are constructed with
Pools ==
    [groundComputeTflops : {10, 100}, orbitalComputeTflops : {10, 100},
     uplinkBandwidthMbps : {100}]

\* a boundary test that lets layer 0 carry a transfer when nothing is on the ground
CrossingFromZero(layers, i, splitIdx) == i = splitIdx /\ splitIdx < Len(layers)

\* i === splitIdx && splitIdx > 0 && splitIdx < model.layers.length
Crossing(layers, i, splitIdx) == i = splitIdx /\ splitIdx > 0 /\ splitIdx < Len(layers)

\* the placement createPlan makes for layer i (0-based) of layers
LayerPlacement(layers, i, splitIdx, pool) ==
    LET layer == layers[i + 1]
        location == IF i < splitIdx THEN "ground" ELSE "orbital"
        computeTflops == IF location = "ground" THEN pool.groundComputeTflops
                         ELSE pool.orbitalComputeTflops
        layerLatencyMs == (layer.flops * 1000000) \div computeTflops
        crossing == Crossing(layers, i, splitIdx)
    IN  [layerName |-> layer.name,
         location |-> location,
         estimatedLatencyMs |->
             IF crossing
             THEN layerLatencyMs + estimateTransferTimeMs(layer.inputSize, pool)
                      + PropagationDelayNs
             ELSE layerLatencyMs,
         dataTransferBytes |-> IF crossing THEN layer.inputSize ELSE 0]

RECURSIVE PlanFrom(_, _, _, _, _)
\* the for loop of createPlan from layer i on, plan holding the sums so far
PlanFrom(layers, i, splitIdx, pool, plan) ==
    IF i >= Len(layers) THEN plan
    ELSE LET placement == LayerPlacement(layers, i, splitIdx, pool)
         IN  PlanFrom(layers, i + 1, splitIdx, pool,
                [modelName |-> plan.modelName,
                 placements |-> Append(plan.placements, placement),
                 totalLatencyMs |-> plan.totalLatencyMs + placement.estimatedLatencyMs,
                 groundOrbitalTransfers |->
                     plan.groundOrbitalTransfers
                         + (IF Crossing(layers, i, splitIdx) THEN 1 ELSE 0),
                 totalTransferBytes |-> plan.totalTransferBytes + placement.dataTransferBytes,
                 objective |-> plan.objective])

\* createPlan(model, splitIdx, objective)
createPlan(layers, splitIdx, objective, pool) ==
    PlanFrom(layers, 0, splitIdx, pool,
             [modelName |-> "model", placements |-> <<>>, totalLatencyMs |-> 0,
              groundOrbitalTransfers |-> 0, totalTransferBytes |-> 0,
              objective |-> objective])

\* a comparison that lets a later plan of equal latency replace the best one
LatencyNotAbove(plan, best) ==
    ~best.found \/ plan.totalLatencyMs <= best.plan.totalLatencyMs

\* plan.totalLatencyMs < bestLatency, bestLatency being Infinity until a plan is found
LatencyBelow(plan, best) ==
    ~best.found \/ plan.totalLatencyMs < best.plan.totalLatencyMs

RECURSIVE BestPlanFrom(_, _, _, _, _)
\* the for (splitIdx = 0; splitIdx <= layers.length; splitIdx++) loop of optimizeLatency
BestPlanFrom(layers, splitIdx, objective, pool, best) ==
    IF splitIdx > Len(layers) THEN best
    ELSE BestPlanFrom(layers, splitIdx + 1, objective, pool,
            IF LatencyBelow(createPlan(layers, splitIdx, objective, pool), best)
            THEN [found |-> TRUE, plan |-> createPlan(layers, splitIdx, objective, pool)]
            ELSE best)

\* optimizeLatency(model, objective)
optimizeLatency(layers, objective, pool) ==
    LET best == BestPlanFrom(layers, 0, objective, pool,
                             [found |-> FALSE, plan |-> createPlan(<<>>, 0, objective, pool)])
    IN  IF best.found THEN best.plan ELSE createPlan(layers, 0, objective, pool)

RECURSIVE MinTransferIdxLast(_, _, _, _)
\* a search that lets a later layer of equal outputSize replace the smallest one
MinTransferIdxLast(layers, i, minTransferIdx, minTransferSize) ==
    IF i >= Len(layers) THEN minTransferIdx
    ELSE IF minTransferSize < 0 \/ layers[i + 1].outputSize <= minTransferSize
    THEN MinTransferIdxLast(layers, i + 1, i + 1, layers[i + 1].outputSize)
    ELSE MinTransferIdxLast(layers, i + 1, minTransferIdx, minTransferSize)

RECURSIVE MinTransferIdxFrom(_, _, _, _)
\* the loop of optimizeBandwidth; minTransferSize < 0 stands for Infinity
MinTransferIdxFrom(layers, i, minTransferIdx, minTransferSize) ==
    IF i >= Len(layers) THEN minTransferIdx
    ELSE IF minTransferSize < 0 \/ layers[i + 1].outputSize < minTransferSize
    THEN MinTransferIdxFrom(layers, i + 1, i + 1, layers[i + 1].outputSize)
    ELSE MinTransferIdxFrom(layers, i + 1, minTransferIdx, minTransferSize)

\* optimizeBandwidth(model, objective)
optimizeBandwidth(layers, objective, pool) ==
    createPlan(layers, MinTransferIdxFrom(layers, 0, 0, -1), objective, pool)

RECURSIVE TotalFlops(_, _)
\* the sum of flops of layers[1..n]
TotalFlops(layers, n) == IF n = 0 THEN 0 ELSE layers[n].flops + TotalFlops(layers, n - 1)

\* a balance that asks the cumulative flops to exceed the target
optimizeBalancedStrict(layers, objective, pool) ==
    LET reached == {n \in 1..Len(layers) :
                       TotalFlops(layers, n)
                           * (pool.groundComputeTflops + pool.orbitalComputeTflops)
                       > TotalFlops(layers, Len(layers)) * pool.groundComputeTflops}
        splitIdx == IF reached = {} THEN 0
                    ELSE CHOOSE n \in reached : \A m \in reached : n <= m
    IN  createPlan(layers, splitIdx, objective, pool)

\* optimizeBalanced(model, objective): the first i with cumulativeFlops >=
\* totalFlops * ground / (ground + orbital) gives splitIdx = i + 1, else 0
optimizeBalanced(layers, objective, pool) ==
    LET reached == {n \in 1..Len(layers) :
                       TotalFlops(layers, n)
                           * (pool.groundComputeTflops + pool.orbitalComputeTflops)
                       >= TotalFlops(layers, Len(layers)) * pool.groundComputeTflops}
        splitIdx == IF reached = {} THEN 0
                    ELSE CHOOSE n \in reached : \A m \in reached : n <= m
    IN  createPlan(layers, splitIdx, objective, pool)

\* optimize(model, objective)
optimize(layers, objective, pool) ==
    IF objective = "minimize_latency" THEN optimizeLatency(layers, objective, pool)
    ELSE IF objective = "minimize_bandwidth" THEN optimizeBandwidth(layers, objective, pool)
    ELSE optimizeBalanced(layers, objective, pool)

\* the value of pPlan before the first optimize call
NoPlan ==
    [modelName |-> "", placements |-> <<>>, totalLatencyMs |-> 0,
     groundOrbitalTransfers |-> 0, totalTransferBytes |-> 0, objective |-> ""]

\* PartitionOptimizer.optimize(model, objective)
OptimizePartitionCall ==
    \E layers \in ModelProfiles, objective \in OptimizationObjective :
        /\ pModel' = layers
        /\ pObjective' = objective
        /\ pPlan' = optimize(layers, objective, pPool)
        /\ UNCHANGED pPool
        /\ UNCHANGED otherThanPart


(***************************************************************************)
(* Topology (src/packages/distributed/src/core.ts)                         *)
(***************************************************************************)

\* the value of a Map slot that holds nothing
NoNodeConfig == [nodeId |-> "", nodeType |-> "", computeTflops |-> 0]

\* node configurations handed to addNode: createGroundNode / createOrbitalNode
\* with their default computeTflops, and a second configuration for "sat-1"
NodeConfigs ==
    { [nodeId |-> "ground-1", nodeType |-> "ground",  computeTflops |-> 100],
      [nodeId |-> "sat-1",    nodeType |-> "orbital", computeTflops |-> 10],
      [nodeId |-> "sat-1",    nodeType |-> "orbital", computeTflops |-> 20],
      [nodeId |-> "sat-2",    nodeType |-> "orbital", computeTflops |-> 10] }

\* node ids handed to removeNode and addConnection
TopologyIds == {c.nodeId : c \in NodeConfigs}

\* bandwidthMbps arguments of addConnection
ConnectionBandwidths == {100, 1000}

\* this.nodes.has(nodeId)
TopologyHas(ns, nodeId) == nodeId \in DOMAIN ns

\* this.nodes.set(node.nodeId, node)
TopologyAddNode(ns, node) ==
    [id \in DOMAIN ns \cup {node.nodeId} |-> IF id = node.nodeId THEN node ELSE ns[id]]

\* a filter that looks only at the first endpoint of a connection
ConnectionsWithoutFirst(cs, nodeId) ==
    SelectSeq(cs, LAMBDA c : c.node1 # nodeId)

\* this.connections.filter((c) => c.node1 !== nodeId && c.node2 !== nodeId)
ConnectionsWithout(cs, nodeId) ==
    SelectSeq(cs, LAMBDA c : c.node1 # nodeId /\ c.node2 # nodeId)

\* an addConnection that looks up only its first endpoint
AddConnectionFirstOnly(ns, cs, node1Id, node2Id, bandwidthMbps) ==
    IF ~TopologyHas(ns, node1Id)
    THEN [error |-> "Both nodes must exist in topology", connections |-> cs]
    ELSE [error |-> "",
          connections |-> Append(cs, [node1 |-> node1Id, node2 |-> node2Id,
                                      bandwidthMbps |-> bandwidthMbps])]

\* addConnection(node1Id, node2Id, bandwidthMbps): the Error thrown and the
\* connections array afterwards
AddConnection(ns, cs, node1Id, node2Id, bandwidthMbps) ==
    IF ~TopologyHas(ns, node1Id) \/ ~TopologyHas(ns, node2Id)
    THEN [error |-> "Both nodes must exist in topology", connections |-> cs]
    ELSE [error |-> "",
          connections |-> Append(cs, [node1 |-> node1Id, node2 |-> node2Id,
                                      bandwidthMbps |-> bandwidthMbps])]

\* topology.addNode(node)
TopologyAddNodeCall ==
    \E node \in NodeConfigs :
        /\ tNodes' = TopologyAddNode(tNodes, node)
        /\ tOp' = "addNode"
        /\ tArgs' = <<>>
        /\ tError' = ""
        /\ tBefore' = [nodes |-> tNodes, connections |-> connections]
        /\ UNCHANGED <<connections, otherThanTopo>>

\* topology.removeNode(nodeId)
TopologyRemoveNodeCall ==
    \E nodeId \in TopologyIds :
        /\ tNodes' = [id \in DOMAIN tNodes \ {nodeId} |-> tNodes[id]]
        /\ connections' = ConnectionsWithout(connections, nodeId)
        /\ tOp' = "removeNode"
        /\ tArgs' = <<nodeId>>
        /\ tError' = ""
        /\ tBefore' = [nodes |-> tNodes, connections |-> connections]
        /\ UNCHANGED otherThanTopo

\* topology.addConnection(node1Id, node2Id, bandwidthMbps)
AddConnectionCall ==
    \E node1Id \in TopologyIds, node2Id \in TopologyIds,
       bandwidthMbps \in ConnectionBandwidths :
        LET r == AddConnection(tNodes, connections, node1Id, node2Id, bandwidthMbps)
        IN  /\ Len(r.connections) <= MaxConnections
            /\ connections' = r.connections
            /\ tOp' = "addConnection"
            /\ tArgs' = <<node1Id, node2Id>>
            /\ tError' = r.error
            /\ tBefore' = [nodes |-> tNodes, connections |-> connections]
            /\ UNCHANGED <<tNodes, otherThanTopo>>
(***************************************************************************)
(* Specifications                                                          *)
(***************************************************************************)
\* no CompressionConfig constructed yet
ConfigIdle ==
    /\ newOptions = NoOptions
    /\ newError = ""
    /\ newConfig = NoConfig
    /\ newOp = "none"

\* a GradientCompressor as its constructor leaves it
CompConstructed ==
    /\ errorAccumulator = NullAcc
    /\ cCalls = 0
    /\ cOp = "new"
    /\ cIn = <<>>
    /\ cPrevIn = <<>>
    /\ cCarried = NullAcc
    /\ cOut = NoGradient
    /\ cDec = <<>>

\* CompressionConfig.balanced(), compressing nothing
CompIdle ==
    /\ cConfig = [method |-> "topk_quantized", kRatio |-> <<1, 100>>,
                  quantizationBits |-> DefaultQuantizationBits, errorFeedback |-> TRUE]
    /\ cLen = 0
    /\ CompConstructed

\* a GradientAggregator as its constructor leaves it
AggConstructed ==
    /\ pendingGradients = <<>>
    /\ round = 0
    /\ aOp = "new"
    /\ aError = FALSE
    /\ aResult = <<>>
    /\ aBefore = NothingBefore
    /\ aLatest = NoneReceived
    /\ aIncluded = NoneReceived
    /\ aReturned = 0

\* new GradientAggregator() with its defaults
AggIdle ==
    /\ aConfig = [strategy |-> "fedavg", minParticipants |-> 1,
                  modelSize |-> [set |-> FALSE, val |-> 0]]
    /\ AggConstructed

\* a SyncScheduler as its constructor leaves it
SchedConstructed ==
    /\ heap = <<>>
    /\ taskCounter = 0
    /\ schedule = <<>>
    /\ now = 0
    /\ sOp = "new"
    /\ sPopped = NoTask
    /\ sBefore = <<>>
    /\ sCapacity = 0
    /\ sGot = <<>>
    /\ sDeadline = Unset
    /\ summary = NoSummary
    /\ sDirect = FALSE

\* a SyncScheduler without ground stations
SchedIdle ==
    /\ groundStations = <<>>
    /\ SchedConstructed

\* a SpaceMesh as its constructor leaves it
MeshConstructed ==
    /\ nodes = <<>>
    /\ links = NoLinks
    /\ adjacency = [id \in {} |-> <<>>]
    /\ route = NoRoute
    /\ stats = NoStats
    /\ routeObjective = ""
    /\ meshOp = "new"
    /\ removedId = NoNode
    /\ meshBefore = NothingRemoved
    /\ addedSince = {}

\* a PartitionOptimizer as its constructor leaves it
PartConstructed ==
    /\ pModel = <<>>
    /\ pObjective = ""
    /\ pPlan = NoPlan

\* a Topology as its field initialisers leave it
TopoConstructed ==
    /\ tNodes = [id \in {} |-> NoNodeConfig]
    /\ connections = <<>>
    /\ tOp = "new"
    /\ tArgs = <<>>
    /\ tError = ""
    /\ tBefore = [nodes |-> [id \in {} |-> NoNodeConfig], connections |-> <<>>]

\* new PartitionOptimizer() with its defaults
PartIdle ==
    /\ TopoConstructed
    /\ pPool = [groundComputeTflops |-> 100, orbitalComputeTflops |-> 10,
                uplinkBandwidthMbps |-> 100]
    /\ PartConstructed

InitConfig ==
    /\ PartIdle
    /\ ConfigIdle
    /\ CompIdle
    /\ AggIdle
    /\ SchedIdle
    /\ MeshConstructed

NextConfig == NewConfigCall \/ HighCompressionCall \/ BalancedCall \/ LowCompressionCall

SpecConfig == InitConfig /\ [][NextConfig]_vars

InitComp ==
    /\ PartIdle
    /\ ConfigIdle
    /\ cConfig \in CompressionConfigs
    /\ cLen \in 0..MaxLen
    /\ CompConstructed
    /\ AggIdle
    /\ SchedIdle
    /\ MeshConstructed

NextComp == CompressCall \/ DecompressCall

SpecComp == InitComp /\ [][NextComp]_vars

InitAgg ==
    /\ PartIdle
    /\ ConfigIdle
    /\ aConfig \in AggConfigs
    /\ AggConstructed
    /\ CompIdle
    /\ SchedIdle
    /\ MeshConstructed

NextAgg == ReceiveGradientsCall \/ AggregateCall

SpecAgg == InitAgg /\ [][NextAgg]_vars

InitSched ==
    /\ PartIdle
    /\ ConfigIdle
    /\ groundStations \in StationNetworks
    /\ SchedConstructed
    /\ CompIdle
    /\ AggIdle
    /\ MeshConstructed

NextSched ==
    \/ ClockTick
    \/ ScheduleSyncCall
    \/ PopTaskCall
    \/ PeekTaskCall
    \/ GetTasksForWindowCall
    \/ OptimizeCall
    \/ GetScheduleSummaryCall

SpecSched == InitSched /\ [][NextSched]_vars

InitMesh ==
    /\ PartIdle
    /\ ConfigIdle
    /\ MeshConstructed
    /\ CompIdle
    /\ AggIdle
    /\ SchedIdle

NextMesh ==
    \/ AddNodeCall
    \/ RemoveNodeCall
    \/ UpdateTopologyCall
    \/ FindRouteCall
    \/ GetMeshStatsCall

SpecMesh == InitMesh /\ [][NextMesh]_vars

InitPart ==
    /\ TopoConstructed
    /\ pPool \in Pools
    /\ PartConstructed
    /\ ConfigIdle
    /\ CompIdle
    /\ AggIdle
    /\ SchedIdle
    /\ MeshConstructed

NextPart == OptimizePartitionCall

SpecPart == InitPart /\ [][NextPart]_vars

InitTopo ==
    /\ TopoConstructed
    /\ PartIdle
    /\ ConfigIdle
    /\ CompIdle
    /\ AggIdle
    /\ SchedIdle
    /\ MeshConstructed

NextTopo == TopologyAddNodeCall \/ TopologyRemoveNodeCall \/ AddConnectionCall

SpecTopo == InitTopo /\ [][NextTopo]_vars

Init == InitConfig \/ InitComp \/ InitAgg \/ InitSched \/ InitMesh \/ InitPart \/ InitTopo

Next ==
    NextConfig \/ NextComp \/ NextAgg \/ NextSched \/ NextMesh \/ NextPart \/ NextTopo

Spec == Init /\ [][Next]_vars

(***************************************************************************)
(* Claims about GradientCompressor                                         *)
(***************************************************************************)
IsSelected(out, i) == \E p \in 1..Len(out.indices) : out.indices[p] = i

NoIndexRepeated(out) ==
    \A p, q \in 1..Len(out.indices) : out.indices[p] = out.indices[q] => p = q

\* max(1, floor(n * r)) for r = num/den
ExpectedCount(n, r) == Max2(1, (n * r[1]) \div r[2])

\* C9 as stated: for any vector of length n and ratio r, compress with a method
\* other than NONE returns indices and values of equal length exactly
\* max(1, floor(n*r)), no index repeated; with NONE it returns all n indices.
C9_Original ==
    cOp = "compress" =>
        IF cConfig.method = "none"
        THEN cOut.indices = [p \in 1..Len(cIn) |-> p - 1]
        ELSE /\ Len(cOut.indices) = ExpectedCount(Len(cIn), cConfig.kRatio)
             /\ Len(cOut.values) = Len(cOut.indices)
             /\ NoIndexRepeated(cOut)

\* C9 amended: for a vector of length n >= 1 compress with a method other than
\* NONE returns indices and values of equal length exactly max(1, floor(n*r)),
\* every index in 0..n-1 and none repeated; for the empty vector it returns no
\* index at all; with NONE it returns all n indices.
C9_SelectedCount ==
    cOp = "compress" =>
        IF cConfig.method = "none"
        THEN cOut.indices = [p \in 1..Len(cIn) |-> p - 1]
        ELSE /\ Len(cOut.indices) =
                    IF Len(cIn) = 0 THEN 0
                    ELSE ExpectedCount(Len(cIn), cConfig.kRatio)
             /\ Len(cOut.values) = Len(cOut.indices)
             /\ NoIndexRepeated(cOut)
             /\ \A p \in 1..Len(cOut.indices) : cOut.indices[p] \in 0..(Len(cIn) - 1)

\* a three-element vector compressed at ratio 1/2 to one index
C9_Witness ==
    /\ cOp = "compress"
    /\ cConfig.method = "topk"
    /\ cConfig.kRatio = <<1, 2>>
    /\ Len(cIn) = 3
    /\ Len(cOut.indices) = 1

\* C10 as stated: decompress(compress(v)) has v's length, equals v exactly at
\* every selected index and is zero at every other index.
C10_Original ==
    cOp = "decompress" =>
        /\ Len(cDec) = Len(cIn)
        /\ \A i \in 0..(Len(cIn) - 1) :
              cDec[i + 1] = IF IsSelected(cOut, i) THEN cIn[i + 1] ELSE RZero

\* the residual the last compress call added to its input at 0-based index i
CarriedAt(i) ==
    IF cConfig.errorFeedback /\ cCarried.set THEN cCarried.val[i + 1] ELSE RZero

\* C10 amended: decompress(compress(v)) has v's length and is zero at every index
\* that was not selected; at a selected index, when the method is not
\* TOP_K_QUANTIZED, it equals v plus the residual error feedback carried in from the
\* previous call, hence v exactly when none is carried (error feedback off, or
\* the first call); under TOP_K_QUANTIZED it is the quantized value returned.
C10_RoundTrip ==
    cOp = "decompress" =>
        /\ Len(cDec) = Len(cIn)
        /\ \A i \in 0..(Len(cIn) - 1) :
              IF ~IsSelected(cOut, i) THEN cDec[i + 1] = RZero
              ELSE /\ \E p \in 1..Len(cOut.indices) :
                         cOut.indices[p] = i /\ cDec[i + 1] = cOut.values[p]
                   /\ cConfig.method # "topk_quantized" =>
                         cDec[i + 1] = RAdd(cIn[i + 1], CarriedAt(i))

\* C10 witness: a round trip of a three-element vector that keeps some indices
\* and zeroes the others, with a non-zero residual carried in
C10_Witness ==
    /\ cOp = "decompress"
    /\ Len(cIn) = 3
    /\ \E i, j \in 0..2 :
          /\ IsSelected(cOut, i) /\ CarriedAt(i) # RZero
          /\ ~IsSelected(cOut, j) /\ cIn[j + 1] # RZero /\ cDec[j + 1] = RZero


\* the residual an accumulator holds at 0-based index i (null: none)
ResidualAt(acc, i) == IF acc.set THEN acc.val[i + 1] ELSE RZero

RECURSIVE SquaredNorm(_, _, _)
\* sum of the squares of the residual acc holds over an n-vector, from index i on
SquaredNorm(acc, n, i) ==
    IF i >= n THEN RZero
    ELSE RAdd(RMul(ResidualAt(acc, i), ResidualAt(acc, i)), SquaredNorm(acc, n, i + 1))

RECURSIVE AbsSum(_, _, _)
\* sum of the absolute values of the residual acc holds, from index i on
AbsSum(acc, n, i) ==
    IF i >= n THEN RZero
    ELSE RAdd(RAbs(ResidualAt(acc, i)), AbsSum(acc, n, i + 1))

\* compress was called twice in a row with the same input, error feedback enabled
SameInputTwice ==
    /\ cConfig.errorFeedback
    /\ cCalls = 2
    /\ cPrevIn = cIn

\* C11 as stated: with error feedback enabled, after compress was called twice in
\* a row with the same input vector, the magnitude (Euclidean norm) of the
\* accumulated residual is no larger than it was after the first call.
C11_Original ==
    SameInputTwice =>
        RLe(SquaredNorm(errorAccumulator, Len(cIn), 0), SquaredNorm(cCarried, Len(cIn), 0))

\* C11 amended: with error feedback enabled and a method other than NONE, after
\* compress was called twice in a row with the same input vector v, the
\* accumulated residual is v plus the residual left by the first call minus the
\* second call's reconstruction, so it is that sum at every index the second
\* call did not select.
C11_ResidualCarried ==
    (SameInputTwice /\ cConfig.method # "none") =>
        /\ errorAccumulator.set
        /\ \A i \in 0..(Len(cIn) - 1) :
              ResidualAt(errorAccumulator, i) =
                  RSub(RAdd(cIn[i + 1], ResidualAt(cCarried, i)), decompress(cOut)[i + 1])
        /\ \A i \in 0..(Len(cIn) - 1) :
              ~IsSelected(cOut, i) =>
                  ResidualAt(errorAccumulator, i) = RAdd(cIn[i + 1], ResidualAt(cCarried, i))

\* top-k with error feedback was called twice with the same input and the second
\* call left a residual larger than the first in Euclidean and in absolute-sum norm
C11_Witness ==
    /\ SameInputTwice
    /\ cConfig.method = "topk"
    /\ cOp = "compress"
    /\ RLt(SquaredNorm(cCarried, Len(cIn), 0), SquaredNorm(errorAccumulator, Len(cIn), 0))
    /\ RLt(AbsSum(cCarried, Len(cIn), 0), AbsSum(errorAccumulator, Len(cIn), 0))

\* the values the last compress call selected, before quantization
SelectedBefore ==
    [p \in 1..Len(cOut.indices) |->
        RAdd(cIn[cOut.indices[p] + 1], CarriedAt(cOut.indices[p]))]

\* value v lies on one of the 2^bits evenly spaced levels from lo to hi
OnLevel(v, lo, hi, bits) ==
    \E q \in 0..(Pow2(bits) - 1) :
        LET level == RAdd(lo, RDiv(RMul(RInt(q), RSub(hi, lo)), RInt(Pow2(bits) - 1)))
        IN  v[1] * level[2] = level[1] * v[2]

\* C29: with method TOP_K_QUANTIZED and bit-width b every value compress
\* returns equals min + q * (max - min) / (2^b - 1) for an integer q in
\* 0..2^b - 1, min and max being the smallest and largest selected values before
\* quantization; when min equals max the selected values are returned unchanged.
C29_OnQuantizationLevels ==
    (cOp = "compress" /\ cConfig.method = "topk_quantized" /\ Len(cOut.indices) > 0) =>
        LET lo == RMinSeq(SelectedBefore)
            hi == RMaxSeq(SelectedBefore)
        IN  IF ~RLt(lo, hi)
            THEN cOut.values = SelectedBefore
            ELSE /\ Len(cOut.values) = Len(SelectedBefore)
                 /\ \A p \in 1..Len(cOut.values) :
                      OnLevel(cOut.values[p], lo, hi, cConfig.quantizationBits)

\* a quantizing compress call moved a selected value that lies between the
\* smallest and the largest selected value onto a level
C29_Witness ==
    /\ cOp = "compress"
    /\ cConfig.method = "topk_quantized"
    /\ Len(cOut.indices) = 3
    /\ \E p \in 1..3 :
        /\ cOut.values[p] # SelectedBefore[p]
        /\ RLt(RMinSeq(SelectedBefore), SelectedBefore[p])
        /\ RLt(SelectedBefore[p], RMaxSeq(SelectedBefore))

\* a quantizing compress call returned selected values that are all equal
C29_EqualValues ==
    /\ cOp = "compress"
    /\ cConfig.method = "topk_quantized"
    /\ Len(cOut.indices) >= 2
    /\ RMinSeq(SelectedBefore) = RMaxSeq(SelectedBefore)
    /\ cOut.values = SelectedBefore

\* rationals a and b are the same number
SameNumber(a, b) == a[1] * b[2] = b[1] * a[2]

\* the last call was a compress with error feedback and a method other than NONE
FeedbackCompress ==
    cOp = "compress" /\ cConfig.errorFeedback /\ cConfig.method # "none"

\* C35: with error feedback enabled and a method other than NONE, after every
\* compress call and at every index the input value plus the residual carried
\* in equals the value reconstructed from the output plus the residual stored
\* for the next call; without quantization the stored residual is zero at
\* every selected index.
C35_MassConserved ==
    FeedbackCompress =>
        /\ errorAccumulator.set
        /\ Len(errorAccumulator.val) = Len(cIn)
        /\ \A i \in 0..(Len(cIn) - 1) :
              /\ SameNumber(RAdd(cIn[i + 1], CarriedAt(i)),
                            RAdd(decompress(cOut)[i + 1], ResidualAt(errorAccumulator, i)))
              /\ (cConfig.method # "topk_quantized" /\ IsSelected(cOut, i))
                    => ResidualAt(errorAccumulator, i) = RZero

\* a second quantizing compress call carried a residual in at a selected index
\* and stored a non-zero residual there
C35_Witness ==
    /\ FeedbackCompress
    /\ cCalls = 2
    /\ cConfig.method = "topk_quantized"
    /\ \E i \in 0..(Len(cIn) - 1) :
        /\ IsSelected(cOut, i)
        /\ CarriedAt(i) # RZero
        /\ ResidualAt(errorAccumulator, i) # RZero

\* a second unquantized compress call carried a residual in at an index it
\* selected and stored none there
C35_SelectedCleared ==
    /\ FeedbackCompress
    /\ cCalls = 2
    /\ cConfig.method = "topk"
    /\ \E i \in 0..(Len(cIn) - 1) :
        /\ IsSelected(cOut, i)
        /\ CarriedAt(i) # RZero
        /\ ResidualAt(errorAccumulator, i) = RZero
(***************************************************************************)
(* Claims about GradientAggregator                                         *)
(***************************************************************************)
\* node ids that have contributed since the last aggregation
ContributorsSince == {n \in AggNodes : aLatest[n].set}

\* the value a contribution's gradient carries at 0-based index idx, zero when
\* the index was not selected
DenseAt(gradient, idx) ==
    IF \E p \in 1..Len(gradient.indices) : gradient.indices[p] = idx
    THEN gradient.values[CHOOSE p \in 1..Len(gradient.indices) : gradient.indices[p] = idx]
    ELSE RZero

RECURSIVE SampleTotal(_)
SampleTotal(contribs) ==
    IF contribs = {} THEN 0
    ELSE LET c == CHOOSE x \in contribs : TRUE
         IN  c.samples + SampleTotal(contribs \ {c})

RECURSIVE WeightedSumAt(_, _, _)
\* sum over the contributions of value at idx * samples / total
WeightedSumAt(contribs, idx, total) ==
    IF contribs = {} THEN RZero
    ELSE LET c == CHOOSE x \in contribs : TRUE
         IN  RAdd(RDiv(RMul(DenseAt(c.gradient, idx), RInt(c.samples)), RInt(total)),
                  WeightedSumAt(contribs \ {c}, idx, total))

RECURSIVE EqualSumAt(_, _, _)
\* sum over the contributions of value at idx / count
EqualSumAt(contribs, idx, count) ==
    IF contribs = {} THEN RZero
    ELSE LET c == CHOOSE x \in contribs : TRUE
         IN  RAdd(RDiv(DenseAt(c.gradient, idx), RInt(count)),
                  EqualSumAt(contribs \ {c}, idx, count))

\* the contributions, tagged by node, that a pending map holds
PendingContribs(map) == {map[p] : p \in 1..Len(map)}

\* the contributions, tagged by node, recorded as the latest of each node
LatestContribs(latest) ==
    {[nodeId |-> n, gradient |-> latest[n].gradient, samples |-> latest[n].samples] :
        n \in {m \in AggNodes : latest[m].set}}

\* the result the strategy defines for a set of contributions
ExpectedAggregate(strategy, contribs, size) ==
    [p \in 1..size |->
        IF strategy = "async_fedavg"
        THEN EqualSumAt(contribs, p - 1, Cardinality(contribs))
        ELSE WeightedSumAt(contribs, p - 1, SampleTotal(contribs))]

\* C4: aggregate() with an empty pending set raises an error and leaves the
\* aggregator unchanged: round not incremented, pending set still empty.
C4_EmptyAggregateThrows ==
    (aOp = "aggregate" /\ aBefore.pending = <<>>) =>
        /\ aError
        /\ round = aBefore.round
        /\ pendingGradients = <<>>
        /\ round = aReturned

\* C4 witness: a failed aggregate() on an aggregator that has completed a round
C4_Witness ==
    /\ aOp = "aggregate"
    /\ aBefore.pending = <<>>
    /\ aError
    /\ round = 1

\* C5: every aggregate() with at least one pending contribution empties the
\* pending set and adds exactly 1 to the round counter, ready or not; the round
\* counter equals the number of aggregate calls that returned a result.
C5_RoundCounts ==
    /\ round = aReturned
    /\ (aOp = "aggregate" /\ Len(aBefore.pending) >= 1) =>
          /\ ~aError
          /\ pendingGradients = <<>>
          /\ round = aBefore.round + 1

\* C5 witness: a second round completed by an aggregate() called with one
\* contribution pending although minParticipants is 2
C5_Witness ==
    /\ aOp = "aggregate"
    /\ Len(aBefore.pending) = 1
    /\ aConfig.minParticipants = 2
    /\ ~aError
    /\ round = 2

\* C6: at most one pending contribution per node id; a second receiveGradients
\* from the same node replaces the first; numParticipants is the number of
\* distinct node ids received since the last aggregate; only the latest
\* contribution of each node enters the aggregate result.
C6_LastWriteWins ==
    /\ \A p, q \in 1..Len(pendingGradients) :
          pendingGradients[p].nodeId = pendingGradients[q].nodeId => p = q
    /\ numParticipants = Cardinality(ContributorsSince)
    /\ PendingContribs(pendingGradients) = LatestContribs(aLatest)
    /\ (aOp = "aggregate" /\ ~aError) =>
          aResult = ExpectedAggregate(aConfig.strategy, LatestContribs(aIncluded),
                                      Len(aResult))

\* C6 witness: an aggregation of two nodes' contributions, and
C6_Witness ==
    /\ aOp = "aggregate"
    /\ ~aError
    /\ Len(aBefore.pending) = 2
    /\ \E n \in AggNodes : aIncluded[n].set /\ aIncluded[n].samples = 3
    /\ \E idx \in 1..Len(aResult) : aResult[idx] # RZero

\* C7: readyToAggregate() is true exactly when the number of pending
\* contributions (distinct contributing nodes) is at least minParticipants; with
\* minParticipants >= 1 it is false right after aggregate() and, once true,
\* stays true over further receiveGradients calls.
C7_ReadyExactly ==
    /\ [](readyToAggregate <=> Cardinality(ContributorsSince) >= aConfig.minParticipants)
    /\ []((aOp = "aggregate" /\ ~aError /\ aConfig.minParticipants >= 1)
            => ~readyToAggregate)
    /\ [][(readyToAggregate /\ aOp' = "receive") => readyToAggregate']_vars
    /\ [][(~readyToAggregate /\ readyToAggregate') =>
            (aOp' = "receive"
             /\ Cardinality(ContributorsSince') = aConfig.minParticipants)]_vars

\* C7 witness: minParticipants = 2 reached by the second distinct node
C7_Witness ==
    /\ aConfig.minParticipants = 2
    /\ aOp = "receive"
    /\ numParticipants = 2
    /\ readyToAggregate
    /\ round = 1

\* C8: under FEDAVG and WEIGHTED_AVG aggregate() returns a vector of the model
\* size whose value at every index is the sum over the pending contributions of
\* the contribution's value there (zero when not selected) times its sampleCount
\* divided by the total of the sample counts.
C8_WeightedAverage ==
    (aOp = "aggregate" /\ ~aError /\ aConfig.strategy \in {"fedavg", "weighted_avg"}) =>
        /\ Len(aResult) = ModelLen
        /\ aResult = ExpectedAggregate("fedavg", PendingContribs(aBefore.pending), ModelLen)

\* C8 witness: three contributions with unequal sample counts averaged
C8_Witness ==
    /\ aOp = "aggregate"
    /\ ~aError
    /\ aConfig.strategy = "weighted_avg"
    /\ Len(aBefore.pending) = 3
    /\ \E p, q \in 1..3 : aBefore.pending[p].samples # aBefore.pending[q].samples
    /\ \E p \in 1..3 : Len(aBefore.pending[p].gradient.indices) = 1


\* readyToAggregate() held when the last aggregate call began
ReadyBeforeAggregate ==
    /\ aOp = "aggregate"
    /\ Len(aBefore.pending) >= aConfig.minParticipants

\* C34: for any configured minParticipants, when readyToAggregate() returns
\* true the aggregate() call that follows returns a result without raising.
C34_Original == ReadyBeforeAggregate => ~aError

\* C34 for aggregators configured with minParticipants of one or more
C34_WhereMinPositive ==
    (ReadyBeforeAggregate /\ aConfig.minParticipants >= 1)
        => (~aError /\ Len(aResult) > 0)

\* an aggregator with minParticipants 2 was ready with two contributions and
\* aggregate returned
C34_ReadyReturned ==
    /\ ReadyBeforeAggregate
    /\ aConfig.minParticipants = 2
    /\ Len(aBefore.pending) = 2
    /\ ~aError

\* an aggregator with minParticipants 0 was ready without a contribution and
\* aggregate raised
C34_ReadyRaised ==
    /\ ReadyBeforeAggregate
    /\ aConfig.minParticipants = 0
    /\ aBefore.pending = <<>>
    /\ aError

\* C36: for any interleaving of receiveGradients and aggregate calls every
\* contribution is included in exactly one aggregate result, the first one
\* after it was received, unless a later contribution of its node replaced it:
\* what is pending is always the latest contribution of each node since the
\* last result, a result is made of exactly those, and none stays pending after
\* it; an aggregate call that raises leaves the pending contributions alone.
C36_IncludedOnce ==
    /\ PendingContribs(pendingGradients) = LatestContribs(aLatest)
    /\ (aOp = "aggregate" /\ ~aError) =>
          /\ PendingContribs(aBefore.pending) = LatestContribs(aIncluded)
          /\ Len(aBefore.pending) = Cardinality(LatestContribs(aIncluded))
          /\ aResult = ExpectedAggregate(aConfig.strategy, PendingContribs(aBefore.pending),
                                         Len(aResult))
          /\ pendingGradients = <<>>
          /\ aLatest = NoneReceived
    /\ (aOp = "aggregate" /\ aError) => pendingGradients = aBefore.pending

\* a second result was made of the contributions of two nodes and nothing stayed
\* pending
C36_Witness ==
    /\ aOp = "aggregate"
    /\ ~aError
    /\ round = 2
    /\ Len(aBefore.pending) = 2
    /\ pendingGradients = <<>>
    /\ \E idx \in 1..Len(aResult) : aResult[idx] # RZero
(***************************************************************************)
(* Claims about SyncScheduler                                              *)
(***************************************************************************)
RECURSIVE AssignedBytes(_, _)
\* sum of dataSizeBytes of tasks[i..]
AssignedBytes(tasks, i) ==
    IF i > Len(tasks) THEN 0
    ELSE tasks[i].dataSizeBytes + AssignedBytes(tasks, i + 1)

\* available bandwidth x window duration in bytes, a rational:
\* (Mbps * 1024 * 1024 / 8) bytes per second times the seconds of the window
BandwidthTimesDuration(window) ==
    RMul(RInt(window.availableBandwidthMbps * (BytesPerMb \div 8)),
         Rat(window.endTime - window.startTime, 1000))

\* C1: in the schedule that optimize leaves (and returns), the dataSizeBytes of
\* the tasks assigned to a window sum to at most that window's byte capacity,
\* available bandwidth x window duration.
C1_WindowCapacity ==
    \A e \in 1..Len(schedule) :
        RLe(RInt(AssignedBytes(schedule[e].tasks, 1)),
            BandwidthTimesDuration(schedule[e].window))

\* optimize has put two tasks into one window that together fill it exactly
C1_Witness ==
    /\ sOp = "optimize"
    /\ \E e \in 1..Len(schedule) :
        /\ Len(schedule[e].tasks) = 2
        /\ RInt(AssignedBytes(schedule[e].tasks, 1)) = BandwidthTimesDuration(schedule[e].window)


\* the tasks that were pending when the last call began
PendingBefore == {sBefore[p] : p \in 1..Len(sBefore)}

\* position of task t in the queue as it was when the last call began
PositionBefore(t) == CHOOSE p \in 1..Len(sBefore) : sBefore[p].taskId = t.taskId

\* the entries of the schedule that hold task t
EntriesOf(t) ==
    {e \in 1..Len(schedule) :
        \E i \in 1..Len(schedule[e].tasks) : schedule[e].tasks[i].taskId = t.taskId}

\* t was placed in the e-th window that received tasks, or in an earlier one
PlacedBy(t, e) == \E d \in EntriesOf(t) : d <= e

\* t comes before c in (priority, deadline) order, queue order breaking ties
RanksBefore(t, c) ==
    \/ t.priority < c.priority
    \/ t.priority = c.priority /\ t.deadline < c.deadline
    \/ t.priority = c.priority /\ t.deadline = c.deadline
        /\ PositionBefore(t) < PositionBefore(c)

RECURSIVE BytesRankedBefore(_, _, _)
\* sum of dataSizeBytes of the tasks among tasks[i..] that rank before c
BytesRankedBefore(tasks, c, i) ==
    IF i > Len(tasks) THEN 0
    ELSE (IF RanksBefore(tasks[i], c) THEN tasks[i].dataSizeBytes ELSE 0)
         + BytesRankedBefore(tasks, c, i + 1)

\* pairs <<c, l>> of a CRITICAL and a LOW task with the same deadline, both
\* pending when the last call began
CriticalLowPairs ==
    {pair \in PendingBefore \X PendingBefore :
        /\ pair[1].priority = 0
        /\ pair[2].priority = 3
        /\ pair[1].deadline = pair[2].deadline}

\* C13 as stated: when optimize has placed both a CRITICAL task and a LOW task
\* with the same deadline, the CRITICAL task's window is earlier than or the
\* same as the LOW task's window.
C13_Original ==
    sOp = "optimize" =>
        \A pair \in CriticalLowPairs :
            (EntriesOf(pair[1]) # {} /\ EntriesOf(pair[2]) # {}) =>
                \A e \in EntriesOf(pair[2]) : PlacedBy(pair[1], e)

\* C13 amended: when optimize has placed a LOW task in a window, a CRITICAL task
\* with the same deadline that was pending too is placed in that window or an
\* earlier one, unless it is larger than the capacity the tasks ranked before
\* it left in that window.
C13_UnlessTooLarge ==
    sOp = "optimize" =>
        \A pair \in CriticalLowPairs :
            \A e \in EntriesOf(pair[2]) :
                \/ PlacedBy(pair[1], e)
                \/ pair[1].dataSizeBytes >
                       CapacityBytes(schedule[e].window)
                           - BytesRankedBefore(schedule[e].tasks, pair[1], 1)

\* optimize placed a LOW task in an earlier window than a CRITICAL task with the
\* same deadline that did not fit there
C13_Witness ==
    /\ sOp = "optimize"
    /\ \E pair \in CriticalLowPairs :
        \E e \in EntriesOf(pair[2]) :
            /\ EntriesOf(pair[1]) # {}
            /\ ~PlacedBy(pair[1], e)
            /\ pair[1].dataSizeBytes > CapacityBytes(schedule[e].window)

\* t is among the tasks the last getTasksForWindow call returned
InGot(t) == \E i \in 1..Len(sGot) : sGot[i].taskId = t.taskId

\* t is in the pending queue
IsPending(t) == \E p \in 1..Len(heap) : heap[p].taskId = t.taskId

\* the capacity that remained when the last getTasksForWindow call considered t
RemainingFor(t) == sCapacity - BytesRankedBefore(sGot, t, 1)

\* C14: getTasksForWindow(capacityBytes) returns its tasks in (priority,
\* deadline) order, and a pending task is among them exactly when its size is at
\* most the capacity minus the sizes of the returned tasks ranked before it; a
\* task that is not returned stays pending and is larger than that remainder.
C14_GreedySelection ==
    sOp = "getTasksForWindow" =>
        /\ \A i, j \in 1..Len(sGot) : i < j => RanksBefore(sGot[i], sGot[j])
        /\ \A i \in 1..Len(sGot) : sGot[i] \in PendingBefore
        /\ \A t \in PendingBefore :
            /\ InGot(t) <=> t.dataSizeBytes <= RemainingFor(t)
            /\ ~InGot(t) => (IsPending(t) /\ t.dataSizeBytes > RemainingFor(t))

\* getTasksForWindow skipped a task that did not fit and returned one ranked after it
C14_Witness ==
    /\ sOp = "getTasksForWindow"
    /\ \E t, u \in PendingBefore :
        /\ RanksBefore(t, u)
        /\ t.priority < u.priority
        /\ ~InGot(t)
        /\ InGot(u)

\* number of places task t occupies in the windows of the schedule
TimesPlaced(t) ==
    Cardinality({pos \in (1..Len(schedule)) \X (1..MaxTasks) :
                    /\ pos[2] <= Len(schedule[pos[1]].tasks)
                    /\ schedule[pos[1]].tasks[pos[2]].taskId = t.taskId})

\* number of places task t occupies in the pending queue
TimesPending(t) == Cardinality({p \in 1..Len(heap) : heap[p].taskId = t.taskId})

\* C15: when optimize has returned, every task that was pending before the call
\* is in exactly one place, one window of the schedule or the pending queue; no
\* task is in two windows and no task placed in a window is still pending.
C15_ExactlyOnePlace ==
    sOp = "optimize" =>
        /\ \A t \in PendingBefore : TimesPlaced(t) + TimesPending(t) = 1
        /\ \A e \in 1..Len(schedule) : \A i \in 1..Len(schedule[e].tasks) :
              schedule[e].tasks[i] \in PendingBefore
        /\ \A p \in 1..Len(heap) : heap[p] \in PendingBefore

\* optimize placed one task in a window and left another one pending
C15_Witness ==
    /\ sOp = "optimize"
    /\ \E t, u \in PendingBefore :
        /\ TimesPlaced(t) = 1 /\ TimesPending(t) = 0
        /\ TimesPlaced(u) = 0 /\ TimesPending(u) = 1

\* a is not after b in (priority, deadline) order
NotAfter(a, b) ==
    \/ a.priority < b.priority
    \/ a.priority = b.priority /\ a.deadline <= b.deadline

\* C16: in every state reached by addTask, popTask, peekTask, getTasksForWindow
\* and optimize the pending queue is ordered by priority ascending and, within
\* equal priority, by deadline ascending; popTask returns and removes, and
\* peekTask returns, a pending task with the smallest (priority, deadline), or
\* undefined when nothing is pending.
C16_QueueOrdered ==
    /\ \A p, q \in 1..Len(heap) : p < q => NotAfter(heap[p], heap[q])
    /\ sOp = "popTask" =>
          IF sBefore = <<>> THEN sPopped = NoTask
          ELSE /\ sPopped \in PendingBefore
               /\ \A t \in PendingBefore : NotAfter(sPopped, t)
               /\ ~IsPending(sPopped)
               /\ Len(heap) = Len(sBefore) - 1
    /\ sOp = "peekTask" =>
          IF heap = <<>> THEN sPopped = NoTask
          ELSE /\ IsPending(sPopped)
               /\ \A p \in 1..Len(heap) : NotAfter(sPopped, heap[p])

\* popTask returned the task that was added second, ahead of the one added first
C16_Witness ==
    /\ sOp = "popTask"
    /\ Len(sBefore) = 2
    /\ sPopped.taskId = 2
    /\ sPopped.priority < heap[1].priority

\* the task the last scheduleSync call enqueued
EnqueuedTask == CHOOSE t \in {heap[i] : i \in 1..Len(heap)} : t.taskId = taskCounter

\* hours after the enqueue time at which a task of the priority is due by default
HoursByPriority == <<1, 4, 12, 48>>

\* C27: a task added without a deadline is due at its enqueue time plus 1 hour
\* (CRITICAL), 4 hours (HIGH), 12 hours (NORMAL) or 48 hours (LOW); a task
\* added with a deadline keeps that deadline.
C27_DefaultDeadline ==
    sOp = "scheduleSync" =>
        /\ \E i \in 1..Len(heap) : heap[i].taskId = taskCounter
        /\ EnqueuedTask.deadline =
              IF sDeadline.set THEN sDeadline.val
              ELSE EnqueuedTask.createdAt
                       + HoursByPriority[EnqueuedTask.priority + 1] * 3600000

\* a NORMAL task was enqueued without a deadline behind a LOW task that was
\* given one
C27_Witness ==
    /\ sOp = "scheduleSync"
    /\ ~sDeadline.set
    /\ EnqueuedTask.priority = 2
    /\ EnqueuedTask.deadline = EnqueuedTask.createdAt + 12 * 3600000
    /\ \E i \in 1..Len(heap) :
        /\ heap[i].priority = 3
        /\ heap[i].deadline = heap[i].createdAt + 3600000

\* the last call was getScheduleSummary and every call before it that took a
\* task from the queue was optimize
SummaryAfterSyncAndOptimize == sOp = "getScheduleSummary" /\ ~sDirect

\* C33: after any sequence of scheduleSync and optimize calls every task ever
\* enqueued is accounted for: totalTasksScheduled plus pendingTasks as reported
\* by getScheduleSummary equals the number of tasks enqueued.
C33_Original ==
    SummaryAfterSyncAndOptimize =>
        summary.totalTasksScheduled + summary.pendingTasks = taskCounter

\* the summary accounts for the pending tasks and for the tasks of the schedule
\* the last optimize call made
C33_LastScheduleOnly ==
    sOp = "getScheduleSummary" =>
        /\ summary.pendingTasks = Len(heap)
        /\ summary.scheduledWindows = Len(schedule)
        /\ summary.totalTasksScheduled + summary.pendingTasks <= taskCounter

\* the summary of a scheduler with two tasks enqueued and none taken directly
\* reports neither as scheduled nor as pending
C33_TasksUnaccounted ==
    /\ SummaryAfterSyncAndOptimize
    /\ taskCounter = 2
    /\ summary.totalTasksScheduled = 0
    /\ summary.pendingTasks = 0
(***************************************************************************)
(* Claims about SpaceMesh.findRoute                                        *)
(***************************************************************************)
\* the active links of the link table
ActiveLinks == {links[key] : key \in {k \in DOMAIN links : links[k].active}}

\* an active link leads from x to y
Linked(x, y) == \E l \in ActiveLinks : l.sourceId = x /\ l.targetId = y

\* every id a node or a link carries
KnownIds ==
    {nodes[i].nodeId : i \in 1..Len(nodes)}
        \cup {l.sourceId : l \in ActiveLinks} \cup {l.targetId : l \in ActiveLinks}

\* the sequences of distinct ids that follow active links, one link at least
Chains ==
    {p \in UNION {[1..n -> KnownIds] : n \in 2..Cardinality(KnownIds)} :
        /\ \A i, j \in 1..Len(p) : i # j => p[i] # p[j]
        /\ \A i \in 1..(Len(p) - 1) : Linked(p[i], p[i + 1])}

\* the chains of active links from x to y
ChainsBetween(x, y) == {p \in Chains : p[1] = x /\ p[Len(p)] = y}

\* x and y are joined by a chain of active links
Joined(x, y) == ChainsBetween(x, y) # {}

\* the latency of the active link from x to y
LatencyBetween(x, y) ==
    (CHOOSE l \in ActiveLinks : l.sourceId = x /\ l.targetId = y).latencyMs

RECURSIVE ChainLatency(_, _)
\* the sum of the link latencies along p[i..]
ChainLatency(p, i) ==
    IF i > Len(p) - 1 THEN 0
    ELSE LatencyBetween(p[i], p[i + 1]) + ChainLatency(p, i + 1)

\* the last call was findRoute(source, destination, "latency") for two nodes
\* joined by a chain of active links
LatencyRouteAsked ==
    /\ routeObjective = "latency"
    /\ Joined(route.sourceId, route.destinationId)

\* C2: findRoute(source, destination, "latency") for a source and destination
\* joined by a chain of active links returns a path from source to destination
\* over active links whose totalLatencyMs is the sum of the latencies of its
\* links, and no chain of active links between the two has a smaller sum.
C2_Original ==
    LatencyRouteAsked =>
        /\ route.path \in ChainsBetween(route.sourceId, route.destinationId)
        /\ route.totalLatencyMs = ChainLatency(route.path, 1)
        /\ \A p \in ChainsBetween(route.sourceId, route.destinationId) :
                ~(ChainLatency(p, 1) < route.totalLatencyMs)

\* C2, allowing for totalLatencyMs being the sum rounded to three decimals of a
\* millisecond: the path returned joins source and destination and no chain
\* between them has a smaller sum of latencies.
C2_UpToRounding ==
    LatencyRouteAsked =>
        /\ route.path \in ChainsBetween(route.sourceId, route.destinationId)
        /\ route.totalLatencyMs = RoundToUnit(ChainLatency(route.path, 1), 1000)
        /\ \A p \in ChainsBetween(route.sourceId, route.destinationId) :
                ~(ChainLatency(p, 1) < ChainLatency(route.path, 1))

\* C2 where the adjacency sets agree with the link table and no two pairs of ids
\* have a link key in common
AdjacencyAgrees ==
    /\ \A l \in ActiveLinks :
        /\ l.sourceId \in DOMAIN adjacency
        /\ \E k \in 1..Len(adjacency[l.sourceId]) : adjacency[l.sourceId][k] = l.targetId
    /\ \A x, y, u, v \in KnownIds :
        LinkKey(x, y) = LinkKey(u, v) => (x = u /\ y = v)

C2_WhereAdjacencyAgrees == AdjacencyAgrees => C2_UpToRounding

\* the destination can be reached from the source over active links
Reachable(x, y) == x = y \/ Joined(x, y)

\* C3: when the source or the destination id is not in the node table, or the
\* destination cannot be reached over active links, findRoute returns a Route
\* with path = [], numHops = 0 and zero distance, latency and bandwidth.
C3_EmptyRoute ==
    (/\ routeObjective # ""
     /\ \/ ~HasNode(nodes, route.sourceId)
        \/ ~HasNode(nodes, route.destinationId)
        \/ ~Reachable(route.sourceId, route.destinationId))
    => /\ route.path = <<>>
       /\ route.numHops = 0
       /\ route.totalDistanceKm = 0
       /\ route.totalLatencyMs = 0
       /\ route.minBandwidthGbps = RZero

\* findRoute was asked for two registered nodes of a mesh with links, none of
\* which leads to the destination, and returned the empty route
C3_Witness ==
    /\ routeObjective # ""
    /\ HasNode(nodes, route.sourceId)
    /\ HasNode(nodes, route.destinationId)
    /\ ActiveLinks # {}
    /\ ~Reachable(route.sourceId, route.destinationId)
    /\ route.path = <<>>


(***************************************************************************)
(* Claims about SpaceMesh.removeNode and SpaceMesh.updateTopology          *)
(***************************************************************************)
\* x is a member of the adjacency set members
Lists(members, x) == \E k \in 1..Len(members) : members[k] = x

\* the keys of the links of table ls that have x as an endpoint
KeysAt(ls, x) == {key \in DOMAIN ls : ls[key].sourceId = x \/ ls[key].targetId = x}

\* C17 as stated: removeNode(x) for a registered x removes x from the node table
\* and from every adjacency set, removes exactly the links that have x as an
\* endpoint and leaves every other link unchanged; removeNode of an id that is
\* not registered changes nothing.
C17_Original ==
    meshOp = "removeNode" =>
        IF HasNode(meshBefore.nodes, removedId)
        THEN /\ ~HasNode(nodes, removedId)
             /\ \A i \in 1..Len(meshBefore.nodes) :
                   meshBefore.nodes[i].nodeId # removedId
                       => HasNode(nodes, meshBefore.nodes[i].nodeId)
             /\ removedId \notin DOMAIN adjacency
             /\ \A id \in DOMAIN adjacency : ~Lists(adjacency[id], removedId)
             /\ DOMAIN links = DOMAIN meshBefore.links \ KeysAt(meshBefore.links, removedId)
             /\ \A key \in DOMAIN links : links[key] = meshBefore.links[key]
        ELSE /\ nodes = meshBefore.nodes
             /\ links = meshBefore.links
             /\ adjacency = meshBefore.adjacency

\* C17 for what the node table, the adjacency sets and the links at x are
\* concerned: removeNode(x) for a registered x removes x from the node table and
\* from every adjacency set and removes every link that has x as an endpoint,
\* and a link it leaves is unchanged; removeNode of an unregistered id changes
\* nothing.
C17_EndpointLinksRemoved ==
    meshOp = "removeNode" =>
        IF HasNode(meshBefore.nodes, removedId)
        THEN /\ ~HasNode(nodes, removedId)
             /\ removedId \notin DOMAIN adjacency
             /\ \A id \in DOMAIN adjacency : ~Lists(adjacency[id], removedId)
             /\ KeysAt(links, removedId) = {}
             /\ DOMAIN links \subseteq DOMAIN meshBefore.links
             /\ \A key \in DOMAIN links : links[key] = meshBefore.links[key]
        ELSE /\ nodes = meshBefore.nodes
             /\ links = meshBefore.links
             /\ adjacency = meshBefore.adjacency

\* removeNode(x) deleted a link between two other nodes
C17_OtherLinkRemoved ==
    /\ meshOp = "removeNode"
    /\ HasNode(meshBefore.nodes, removedId)
    /\ \E key \in DOMAIN meshBefore.links :
        /\ key \notin DOMAIN links
        /\ meshBefore.links[key].sourceId # removedId
        /\ meshBefore.links[key].targetId # removedId

\* the registered node with id x
NodeOf(x) == nodes[CHOOSE i \in 1..Len(nodes) : nodes[i].nodeId = x]

RegisteredIds == {nodes[i].nodeId : i \in 1..Len(nodes)}

\* the nodes x and y are within the smaller of their ISL ranges and in line of sight
InRange(x, y) ==
    /\ calculateDistance(NodeOf(x), NodeOf(y))
          <= Min2(NodeOf(x).islRangeKm, NodeOf(y).islRangeKm) * 1000
    /\ hasLineOfSight(NodeOf(x), NodeOf(y))

\* the links of the table that lead from x to y
LinksFrom(x, y) ==
    {links[key] : key \in {k \in DOMAIN links :
                              links[k].sourceId = x /\ links[k].targetId = y}}

\* the link updateTopology makes from x to y
LinkMade(x, y) ==
    [sourceId |-> x, targetId |-> y,
     distanceKm |-> calculateDistance(NodeOf(x), NodeOf(y)),
     bandwidthGbps |-> Min2(NodeOf(x).islBandwidthGbps, NodeOf(y).islBandwidthGbps),
     latencyMs |-> LatencyOf(calculateDistance(NodeOf(x), NodeOf(y))),
     linkType |-> "optical", active |-> TRUE]

\* the link table holds, for every ordered pair of distinct registered nodes in
\* range of each other, the link made for it, and nothing else
LinksAreThoseInRange ==
    /\ \A x, y \in RegisteredIds :
          LinksFrom(x, y) = IF x # y /\ InRange(x, y) THEN {LinkMade(x, y)} ELSE {}
    /\ \A key \in DOMAIN links :
          links[key].sourceId \in RegisteredIds /\ links[key].targetId \in RegisteredIds

\* no two ordered pairs of registered ids have a link key in common
KeysDistinct ==
    \A x, y, u, v \in RegisteredIds : LinkKey(x, y) = LinkKey(u, v) => (x = u /\ y = v)

\* C18 as stated: after updateTopology the link table holds a link from A to B
\* exactly when A and B are distinct registered nodes whose distance is at most
\* the smaller of their ISL ranges and that are in line of sight, with the
\* smaller of their bandwidths; no link of an earlier topology is left, so the
\* links are a function of the node set and a second updateTopology changes
\* nothing.
C18_Original == meshOp = "updateTopology" => LinksAreThoseInRange

\* C18 where no two pairs of registered ids have a link key in common
C18_WhereKeysDistinct ==
    (meshOp = "updateTopology" /\ KeysDistinct) => LinksAreThoseInRange

\* updateTopology ran on three nodes, two pairs of them in range and one not
C18_Witness ==
    /\ meshOp = "updateTopology"
    /\ KeysDistinct
    /\ Len(nodes) = 3
    /\ Cardinality(DOMAIN links) = 4

\* updateTopology left no link from a node to another one in range of it
C18_LinkMissing ==
    /\ meshOp = "updateTopology"
    /\ \E x, y \in RegisteredIds : x # y /\ InRange(x, y) /\ LinksFrom(x, y) = {}

\* the link stored under the key of the reverse direction of link l
Reverse(l) == links[LinkKey(l.targetId, l.sourceId)]

\* C19 as stated: in every state reached through addNode, removeNode and
\* updateTopology, whenever the link table holds a link from A to B it holds a
\* link from B to A with the same distance, latency and bandwidth.
C19_Original ==
    \A key \in DOMAIN links :
        /\ LinkKey(links[key].targetId, links[key].sourceId) \in DOMAIN links
        /\ Reverse(links[key]).sourceId = links[key].targetId
        /\ Reverse(links[key]).targetId = links[key].sourceId
        /\ Reverse(links[key]).distanceKm = links[key].distanceKm
        /\ Reverse(links[key]).latencyMs = links[key].latencyMs
        /\ Reverse(links[key]).bandwidthGbps = links[key].bandwidthGbps

\* C19 where removeNode was never called and no two pairs of registered ids have
\* a link key in common
C19_WhereKeysDistinct == (KeysDistinct /\ meshOp = "updateTopology") => C19_Original

\* removeNode left a link whose reverse it deleted
C19_ReverseRemoved ==
    /\ meshOp = "removeNode"
    /\ \E key \in DOMAIN links :
        /\ LinkKey(links[key].targetId, links[key].sourceId) \notin DOMAIN links
        /\ LinkKey(links[key].targetId, links[key].sourceId) \in DOMAIN meshBefore.links

\* the last call was findRoute(x, x) for a registered x
RouteToSelfAsked ==
    /\ meshOp = "findRoute"
    /\ route.sourceId = route.destinationId
    /\ HasNode(nodes, route.sourceId)

\* C25: findRoute(x, x) for a registered x returns path [x], numHops 0,
\* zero distance and latency and an infinite minBandwidthGbps, which the empty
\* path of the no-route result tells apart from "no route".
C25_RouteToSelf ==
    RouteToSelfAsked =>
        /\ route.path = <<route.sourceId>>
        /\ route.numHops = 0
        /\ route.totalDistanceKm = 0
        /\ route.totalLatencyMs = 0
        /\ route.minBandwidthGbps = Infinity
        /\ route # EmptyRoute(route.sourceId, route.destinationId)
        /\ EmptyRoute(route.sourceId, route.destinationId).path = <<>>

\* findRoute(x, x) was answered on a mesh where x has an active link
C25_Witness ==
    /\ RouteToSelfAsked
    /\ route.path = <<route.sourceId>>
    /\ \E l \in ActiveLinks : l.sourceId = route.sourceId

\* the bandwidth of the active link from x to y
BandwidthBetween(x, y) ==
    (CHOOSE l \in ActiveLinks : l.sourceId = x /\ l.targetId = y).bandwidthGbps

RECURSIVE ChainWeight(_, _)
\* the sum of 1 / bandwidthGbps over the links along p[i..]
ChainWeight(p, i) ==
    IF i > Len(p) - 1 THEN RZero
    ELSE RAdd(RDiv(RInt(1), RInt(BandwidthBetween(p[i], p[i + 1]))), ChainWeight(p, i + 1))

\* the smallest bandwidth of a link along p
ChainMinBandwidth(p) ==
    LET bws == {BandwidthBetween(p[i], p[i + 1]) : i \in 1..(Len(p) - 1)}
    IN  CHOOSE b \in bws : \A c \in bws : b <= c

\* the last call was findRoute(source, destination, "bandwidth") for two nodes
\* joined by a chain of active links
BandwidthRouteAsked ==
    /\ routeObjective = "bandwidth"
    /\ Joined(route.sourceId, route.destinationId)

\* C26: findRoute(source, destination, "bandwidth") for a source and destination
\* joined by a chain of active links returns a path over active links for which
\* the sum of 1 / bandwidth of its links is minimal among the chains between the
\* two, and minBandwidthGbps is the smallest bandwidth of a link on that path.
C26_Original ==
    BandwidthRouteAsked =>
        /\ route.path \in ChainsBetween(route.sourceId, route.destinationId)
        /\ \A p \in ChainsBetween(route.sourceId, route.destinationId) :
                ~RLt(ChainWeight(p, 1), ChainWeight(route.path, 1))
        /\ route.minBandwidthGbps = RInt(ChainMinBandwidth(route.path))

\* C26 where the adjacency sets agree with the link table and no two pairs of
\* ids have a link key in common
C26_WhereAdjacencyAgrees == AdjacencyAgrees => C26_Original

\* a bandwidth route was returned for two nodes joined by chains of different
\* weight, on a mesh whose adjacency sets agree with its links
C26_ChainsDiffer ==
    /\ BandwidthRouteAsked
    /\ AdjacencyAgrees
    /\ route.path # <<>>
    /\ \E p \in ChainsBetween(route.sourceId, route.destinationId) :
            RLt(ChainWeight(route.path, 1), ChainWeight(p, 1))

(***************************************************************************)
(* Claims about SpaceMesh.getMeshStats                                     *)
(***************************************************************************)
\* the unordered pairs of node ids joined by an active link
LinkedPairs == {{l.sourceId, l.targetId} : l \in ActiveLinks}

\* the bandwidth of the active link that joins the pair
PairBandwidth(pair) ==
    (CHOOSE l \in ActiveLinks : {l.sourceId, l.targetId} = pair).bandwidthGbps

RECURSIVE BandwidthOver(_)
\* the sum of the link bandwidth over the pairs
BandwidthOver(pairs) ==
    IF pairs = {} THEN 0
    ELSE LET pair == CHOOSE p \in pairs : TRUE
         IN  PairBandwidth(pair) + BandwidthOver(pairs \ {pair})

\* C28: getMeshStats reports activeLinks as the number of unordered node pairs
\* joined by an active link, avgLinksPerNode as 2 * activeLinks divided by the
\* node count, and totalBandwidthGbps as the sum of the link bandwidth over
\* those pairs, whatever the node ids are.
C28_Original ==
    meshOp = "getMeshStats" =>
        /\ stats.activeLinks = Cardinality(LinkedPairs)
        /\ Len(nodes) > 0 => stats.avgLinksPerNode * Len(nodes) = 2 * stats.activeLinks * 100
        /\ stats.totalBandwidthGbps = BandwidthOver(LinkedPairs)

\* C28 for the link count and the average, the average taken to two decimals,
\* where no two pairs of ids have a link key in common
C28_CountsWhereKeysDistinct ==
    (/\ meshOp = "getMeshStats"
     /\ \A x, y, u, v \in KnownIds : LinkKey(x, y) = LinkKey(u, v) => (x = u /\ y = v))
    => /\ stats.activeLinks = Cardinality(LinkedPairs)
       /\ Len(nodes) > 0 =>
            stats.avgLinksPerNode = RRound(<<2 * Cardinality(LinkedPairs) * 100, Len(nodes)>>)

\* getMeshStats counted the one linked pair of a two-node mesh and reported no
\* bandwidth for it
C28_BandwidthMissed ==
    /\ meshOp = "getMeshStats"
    /\ Len(nodes) = 2
    /\ Cardinality(LinkedPairs) = 1
    /\ stats.activeLinks = 1
    /\ stats.avgLinksPerNode = 100
    /\ BandwidthOver(LinkedPairs) = 10
    /\ stats.totalBandwidthGbps = 0

(***************************************************************************)
(* Claims about the agreement of adjacency sets and link table             *)
(***************************************************************************)
\* C30: in every state reached through addNode (adding a registered id
\* included), removeNode and updateTopology, B is in A's adjacency set exactly
\* when an active link from A to B is in the link table, and both endpoints of
\* every link are registered nodes.
C30_Original ==
    /\ \A x, y \in KnownIds \cup DOMAIN adjacency :
          (x \in DOMAIN adjacency /\ Lists(adjacency[x], y)) <=> Linked(x, y)
    /\ \A key \in DOMAIN links :
          HasNode(nodes, links[key].sourceId) /\ HasNode(nodes, links[key].targetId)

\* the part of C30 that concerns the endpoints: both endpoints of every link
\* are registered nodes
C30_EndpointsRegistered ==
    \A key \in DOMAIN links :
        HasNode(nodes, links[key].sourceId) /\ HasNode(nodes, links[key].targetId)

\* addNode of a registered id left its adjacency set empty next to an active
\* link from it
C30_AdjacencyEmptied ==
    /\ meshOp = "addNode"
    /\ \E l \in ActiveLinks :
        /\ HasNode(nodes, l.sourceId)
        /\ l.sourceId \in DOMAIN adjacency
        /\ adjacency[l.sourceId] = <<>>

\* removeNode left a node in an adjacency set to which no link leads any more
C30_NeighbourWithoutLink ==
    /\ meshOp = "removeNode"
    /\ \E x \in DOMAIN adjacency : \E k \in 1..Len(adjacency[x]) :
          ~Linked(x, adjacency[x][k])

(***************************************************************************)
(* Claims about nodes added after the last updateTopology                  *)
(***************************************************************************)
\* the id the last addNode call registered as a new one ({}: it was registered)
NewlyAdded ==
    {nodes[i].nodeId : i \in 1..Len(nodes)}
        \ {meshBefore.nodes[i].nodeId : i \in 1..Len(meshBefore.nodes)}

\* C31: a node added under a new id after the last updateTopology has no links
\* until updateTopology is called again: findRoute between it and any other
\* node returns the empty-path route, and right after the addNode the routes
\* between all other nodes are what they were before it.
C31_AddedNodeUnlinked ==
    /\ \A x \in addedSince : KeysAt(links, x) = {}
    /\ (/\ meshOp = "findRoute"
        /\ route.sourceId # route.destinationId
        /\ (route.sourceId \in addedSince \/ route.destinationId \in addedSince))
       => route = EmptyRoute(route.sourceId, route.destinationId)
    /\ (meshOp = "addNode" /\ NewlyAdded # {}) =>
          \A x, y \in MeshIds \ NewlyAdded : \A objective \in RouteObjectives :
              findRoute(nodes, links, adjacency, x, y, objective)
                  = findRoute(meshBefore.nodes, meshBefore.links, meshBefore.adjacency,
                              x, y, objective)

\* findRoute was asked for a node added since the last updateTopology and a
\* node in range of it that has active links
C31_Witness ==
    /\ meshOp = "findRoute"
    /\ route.destinationId \in addedSince
    /\ HasNode(nodes, route.sourceId)
    /\ route.sourceId # route.destinationId
    /\ InRange(route.sourceId, route.destinationId)
    /\ \E l \in ActiveLinks : l.sourceId = route.sourceId
    /\ route.path = <<>>

\* a node was added under a new id to a mesh in which two other nodes have a
\* route
C31_RoutesKept ==
    /\ meshOp = "addNode"
    /\ NewlyAdded # {}
    /\ \E x, y \in MeshIds \ NewlyAdded :
          /\ x # y
          /\ findRoute(nodes, links, adjacency, x, y, "latency").path # <<>>

(***************************************************************************)
(* Claims about the symmetry of routing                                    *)
(***************************************************************************)
\* findRoute(x, y) with the default objective in the present state
RouteNow(x, y) == findRoute(nodes, links, adjacency, x, y, "latency")

\* C32: in every state reached through addNode, removeNode and updateTopology
\* findRoute(a, b) returns a non-empty path exactly when findRoute(b, a) does,
\* and the two routes then have the same total latency.
C32_Original ==
    \A x, y \in MeshIds :
        /\ RouteNow(x, y).path # <<>> <=> RouteNow(y, x).path # <<>>
        /\ RouteNow(x, y).path # <<>>
              => RouteNow(x, y).totalLatencyMs = RouteNow(y, x).totalLatencyMs

\* every active link has an active link in the opposite direction
LinksPaired == \A l \in ActiveLinks : Linked(l.targetId, l.sourceId)

\* C32 where the adjacency sets agree with the link table, no two pairs of ids
\* have a link key in common and every link has its opposite
C32_WhereLinksPaired == (AdjacencyAgrees /\ LinksPaired) => C32_Original

\* a route of two hops exists in both directions on a mesh whose adjacency sets
\* agree with its links and whose links are paired
C32_BothWays ==
    /\ AdjacencyAgrees
    /\ LinksPaired
    /\ \E x, y \in MeshIds :
        /\ RouteNow(x, y).numHops = 2
        /\ RouteNow(y, x).numHops = 2

\* a route exists from one node to another and none the other way
C32_OneWay ==
    \E x, y \in MeshIds : RouteNow(x, y).path # <<>> /\ RouteNow(y, x).path = <<>>

(***************************************************************************)
(* Claims about the paths findRoute returns                                *)
(***************************************************************************)
\* C37: every non-empty path findRoute returns starts at the source and ends
\* at the destination, visits no node twice, contains only registered nodes,
\* has an active link of the link table from each of its nodes to the next,
\* and has numHops equal to the path length minus one.
C37_Original ==
    (meshOp = "findRoute" /\ route.path # <<>>) =>
        /\ route.path[1] = route.sourceId
        /\ route.path[Len(route.path)] = route.destinationId
        /\ \A i, j \in 1..Len(route.path) : route.path[i] = route.path[j] => i = j
        /\ \A i \in 1..Len(route.path) : HasNode(nodes, route.path[i])
        /\ \A i \in 1..(Len(route.path) - 1) : Linked(route.path[i], route.path[i + 1])
        /\ route.numHops = Len(route.path) - 1

\* C37 where no two pairs of ids have a link key in common
C37_WhereKeysDistinct ==
    (\A x, y, u, v \in KnownIds : LinkKey(x, y) = LinkKey(u, v) => (x = u /\ y = v))
        => C37_Original

\* findRoute returned a path of two hops on a mesh where no two pairs of ids
\* have a link key in common
C37_TwoHops ==
    /\ meshOp = "findRoute"
    /\ \A x, y, u, v \in KnownIds : LinkKey(x, y) = LinkKey(u, v) => (x = u /\ y = v)
    /\ Len(route.path) = 3

\* findRoute returned a path with a step that no active link of the table makes
C37_StepWithoutLink ==
    /\ meshOp = "findRoute"
    /\ \E i \in 1..(Len(route.path) - 1) : ~Linked(route.path[i], route.path[i + 1])

\* C37 with the link between consecutive nodes taken in either direction
C37_EitherDirection ==
    (meshOp = "findRoute" /\ route.path # <<>>) =>
        /\ route.path[1] = route.sourceId
        /\ route.path[Len(route.path)] = route.destinationId
        /\ \A i, j \in 1..Len(route.path) : route.path[i] = route.path[j] => i = j
        /\ \A i \in 1..Len(route.path) : HasNode(nodes, route.path[i])
        /\ \A i \in 1..(Len(route.path) - 1) :
              Linked(route.path[i], route.path[i + 1])
                  \/ Linked(route.path[i + 1], route.path[i])
        /\ route.numHops = Len(route.path) - 1
(***************************************************************************)
(* Claims about CompressionConfig                                          *)
(***************************************************************************)
\* the ratio and bit-width the last construction asked for, defaults filled in
AskedKRatio == OrDefault(newOptions.kRatio, DefaultKRatio)

AskedQuantizationBits == OrDefault(newOptions.quantizationBits, DefaultQuantizationBits)

\* k is a number of the interval (0, 1]
InUnitInterval(k) == ~IsNaN(k) /\ RLt(RZero, k) /\ RLe(k, RInt(1))

\* the last construction threw and returned no object
Raised == newError # "" /\ newConfig = NoConfig

\* the last construction returned an object holding the values asked for, both valid
ReturnedAsAsked ==
    /\ newError = ""
    /\ newConfig.kRatio = AskedKRatio
    /\ newConfig.quantizationBits = AskedQuantizationBits
    /\ InUnitInterval(newConfig.kRatio)
    /\ newConfig.quantizationBits \in ValidQuantizationBits

\* C12 as stated: constructing a CompressionConfig raises an error when the
\* retention ratio is not in (0, 1] or the bit-width is not one of 2, 4, 8, 16,
\* 32; otherwise the object returned holds the values asked for, unclamped, and
\* no object with an invalid ratio or bit-width is returned.
C12_Original ==
    newOp # "none" =>
        IF InUnitInterval(AskedKRatio) /\ AskedQuantizationBits \in ValidQuantizationBits
        THEN ReturnedAsAsked
        ELSE Raised

\* C12 for ratios that compare with 0 and 1: the statement of C12 holds of
\* every construction whose retention ratio is not NaN.
C12_ComparableRatio ==
    (newOp # "none" /\ ~IsNaN(AskedKRatio)) =>
        IF InUnitInterval(AskedKRatio) /\ AskedQuantizationBits \in ValidQuantizationBits
        THEN ReturnedAsAsked
        ELSE Raised

\* a ratio above 1 with a valid bit-width was rejected
C12_Witness ==
    /\ newOp = "new"
    /\ AskedKRatio = <<3, 2>>
    /\ AskedQuantizationBits = 4
    /\ Raised

\* a construction with ratio NaN returned an object
C12_NaNAccepted ==
    /\ newOp = "new"
    /\ IsNaN(AskedKRatio)
    /\ newError = ""
    /\ IsNaN(newConfig.kRatio)

(***************************************************************************)
(* Claims about PartitionOptimizer                                         *)
(***************************************************************************)
\* the split index of a plan: the number of layers it places on the ground
SplitOf(plan) ==
    Cardinality({i \in 1..Len(plan.placements) : plan.placements[i].location = "ground"})

\* the plan createPlan makes for split index s of the last optimize call's model
PlanAt(s) == createPlan(pModel, s, pObjective, pPool)

\* C20: with the MINIMIZE_LATENCY objective, optimize returns the plan of a split
\* index 0..numLayers whose totalLatencyMs is at most the totalLatencyMs of the
\* plan of every split index 0..numLayers, and of the split indices whose plan
\* has that latency it returns the smallest.
C20_MinimalLatency ==
    pObjective = "minimize_latency" =>
        /\ pPlan = PlanAt(SplitOf(pPlan))
        /\ \A s \in 0..Len(pModel) :
            /\ pPlan.totalLatencyMs <= PlanAt(s).totalLatencyMs
            /\ pPlan.totalLatencyMs = PlanAt(s).totalLatencyMs => SplitOf(pPlan) <= s

\* optimize minimized latency for a model of several layers whose all-ground and
\* all-orbital plans tie, and a split in between is slower
C20_Witness ==
    /\ pObjective = "minimize_latency"
    /\ Len(pModel) >= 2
    /\ SplitOf(pPlan) = 0
    /\ PlanAt(Len(pModel)).totalLatencyMs = pPlan.totalLatencyMs
    /\ PlanAt(1).totalLatencyMs > pPlan.totalLatencyMs

\* optimize minimized latency by placing every layer on the ground
C20_AllGround ==
    /\ pObjective = "minimize_latency"
    /\ Len(pModel) >= 2
    /\ SplitOf(pPlan) = Len(pModel)
    /\ PlanAt(0).totalLatencyMs > pPlan.totalLatencyMs

\* the plan places layers [0, s) on the ground and the rest in orbit, with the
\* transfer of a split at s
PlanSplitsAt(plan, s) ==
    /\ Len(plan.placements) = Len(pModel)
    /\ \A i \in 0..(Len(pModel) - 1) :
        /\ plan.placements[i + 1].location = (IF i < s THEN "ground" ELSE "orbital")
        /\ plan.placements[i + 1].layerName = pModel[i + 1].name
        /\ i # s => plan.placements[i + 1].dataTransferBytes = 0
    /\ IF 0 < s /\ s < Len(pModel)
       THEN /\ plan.groundOrbitalTransfers = 1
            /\ plan.placements[s + 1].dataTransferBytes = pModel[s + 1].inputSize
            /\ plan.totalTransferBytes = plan.placements[s + 1].dataTransferBytes
       ELSE /\ plan.groundOrbitalTransfers = 0
            /\ plan.totalTransferBytes = 0
            /\ \A i \in 1..Len(plan.placements) : plan.placements[i].dataTransferBytes = 0

\* C21: every plan optimize returns places a prefix [0, s) of the layers on
\* GROUND and the rest on ORBITAL for some s in 0..numLayers;
\* groundOrbitalTransfers is 1 when 0 < s < numLayers and 0 otherwise, only the
\* layer at index s carries dataTransferBytes, and totalTransferBytes is that
\* layer's value.
C21_PrefixOnGround ==
    pObjective # "" => \E s \in 0..Len(pModel) : PlanSplitsAt(pPlan, s)

\* optimize returned a plan split strictly inside a model of three layers
C21_Witness ==
    /\ pObjective # ""
    /\ Len(pModel) = 3
    /\ \E s \in 1..2 : PlanSplitsAt(pPlan, s)
    /\ pPlan.totalTransferBytes > 0

\* the first layer index (0-based) whose outputSize is the smallest of the model
FirstSmallestOutput ==
    CHOOSE i \in 0..(Len(pModel) - 1) :
        /\ \A j \in 0..(Len(pModel) - 1) : pModel[i + 1].outputSize <= pModel[j + 1].outputSize
        /\ \A j \in 0..(i - 1) : pModel[j + 1].outputSize > pModel[i + 1].outputSize

\* C22: with the MINIMIZE_BANDWIDTH objective and a model that has layers,
\* optimize returns the plan of split index i + 1, i being the first layer index
\* whose outputSize is the smallest outputSize of the model.
C22_SplitAfterSmallestOutput ==
    (pObjective = "minimize_bandwidth" /\ Len(pModel) > 0) =>
        /\ pPlan = PlanAt(FirstSmallestOutput + 1)
        /\ SplitOf(pPlan) = FirstSmallestOutput + 1

\* bandwidth was minimized for a model whose smallest outputSize occurs at layer
\* 0 and again later
C22_Witness ==
    /\ pObjective = "minimize_bandwidth"
    /\ Len(pModel) = 3
    /\ pModel[1].outputSize = pModel[3].outputSize
    /\ pModel[1].outputSize < pModel[2].outputSize
    /\ SplitOf(pPlan) = 1

RECURSIVE FlopsThrough(_)
\* cumulative flops of layers 0..i
FlopsThrough(i) == IF i < 0 THEN 0 ELSE pModel[i + 1].flops + FlopsThrough(i - 1)

\* the cumulative flops of layers 0..i reach
\* totalFlops * groundTflops / (groundTflops + orbitalTflops)
ReachesTarget(i) ==
    FlopsThrough(i) * (pPool.groundComputeTflops + pPool.orbitalComputeTflops)
        >= FlopsThrough(Len(pModel) - 1) * pPool.groundComputeTflops

\* C23: with the BALANCE objective (and MAXIMIZE_THROUGHPUT, which takes the
\* same branch) and a model that has layers, some layer index reaches the
\* target, optimize returns the plan of split index i + 1 for the first such
\* index i, and at least one layer is on the ground.
C23_SplitAtBalance ==
    (pObjective \in {"balance", "maximize_throughput"} /\ Len(pModel) > 0) =>
        /\ \E i \in 0..(Len(pModel) - 1) : ReachesTarget(i)
        /\ \A i \in 0..(Len(pModel) - 1) :
              (ReachesTarget(i) /\ \A j \in 0..(i - 1) : ~ReachesTarget(j))
                  => (pPlan = PlanAt(i + 1) /\ SplitOf(pPlan) = i + 1)
        /\ SplitOf(pPlan) >= 1

\* balance on equal pools split a model of two equal layers after the first,
\* whose flops are exactly the target
C23_Witness ==
    /\ pObjective = "balance"
    /\ Len(pModel) = 2
    /\ pModel[1].flops = pModel[2].flops
    /\ pPool.groundComputeTflops = pPool.orbitalComputeTflops
    /\ SplitOf(pPlan) = 1

\* C38: the plan returned for MINIMIZE_BANDWIDTH has totalTransferBytes no
\* larger than the plan of any split index 0 < s < numLayers of the same
\* model, whatever the layer profiles are.
C38_Original ==
    pObjective = "minimize_bandwidth" =>
        \A s \in 1..(Len(pModel) - 1) :
            pPlan.totalTransferBytes <= PlanAt(s).totalTransferBytes

\* each layer of the model takes in what the layer before it puts out
InputsFollowOutputs ==
    \A i \in 2..Len(pModel) : pModel[i].inputSize = pModel[i - 1].outputSize

\* C38 for models in which each layer's inputSize is the outputSize of the
\* layer before it
C38_WhereInputsFollowOutputs == InputsFollowOutputs => C38_Original

\* bandwidth was minimized for a model of three layers whose inputs follow the
\* outputs, with different transfers at the two inner splits
C38_InnerSplitsDiffer ==
    /\ pObjective = "minimize_bandwidth"
    /\ Len(pModel) = 3
    /\ InputsFollowOutputs
    /\ pPlan.totalTransferBytes > 0
    /\ \E s \in 1..2 : pPlan.totalTransferBytes < PlanAt(s).totalTransferBytes

\* the plan returned for MINIMIZE_BANDWIDTH transfers more than the plan of
\* another inner split
C38_LargerTransfer ==
    /\ pObjective = "minimize_bandwidth"
    /\ \E s \in 1..(Len(pModel) - 1) :
          pPlan.totalTransferBytes > PlanAt(s).totalTransferBytes

(***************************************************************************)
(* Topology claims                                                         *)
(***************************************************************************)

\* the last call was an addConnection naming an endpoint that was not registered
UnregisteredEndpoint ==
    /\ tOp = "addConnection"
    /\ \E k \in 1..2 : ~TopologyHas(tBefore.nodes, tArgs[k])

\* C24: addConnection raises an error when either endpoint id is not
\* registered, and the failed call leaves nodes and connections as they were.
C24_RejectsUnregistered ==
    UnregisteredEndpoint =>
        /\ tError # ""
        /\ tNodes = tBefore.nodes
        /\ connections = tBefore.connections

\* addConnection was refused for a registered first endpoint and an
\* unregistered second one, on a topology that already holds a connection
C24_Witness ==
    /\ UnregisteredEndpoint
    /\ TopologyHas(tBefore.nodes, tArgs[1])
    /\ tError # ""
    /\ Len(connections) > 0

\* connection c has node id x as one of its endpoints
EndpointOf(c, x) == c.node1 = x \/ c.node2 = x

\* how many of the first i connections of cs do not have x as an endpoint
KeptUpTo(cs, x, i) == Cardinality({j \in 1..i : ~EndpointOf(cs[j], x)})

\* C39: in every reachable Topology state both endpoints of every stored
\* connection are registered nodes, and removeNode(x) removes every connection
\* that has x as an endpoint and no other: the connections that do not touch x
\* stay, in their order.
C39_EndpointsRegistered ==
    /\ \A i \in 1..Len(connections) :
          /\ TopologyHas(tNodes, connections[i].node1)
          /\ TopologyHas(tNodes, connections[i].node2)
    /\ tOp = "removeNode" =>
          LET x == tArgs[1]
              before == tBefore.connections
          IN  /\ ~TopologyHas(tNodes, x)
              /\ Len(connections) = KeptUpTo(before, x, Len(before))
              /\ \A i \in 1..Len(before) :
                    ~EndpointOf(before[i], x) =>
                        connections[KeptUpTo(before, x, i)] = before[i]

\* removeNode(x) was called on a topology holding a connection that ends in x
\* (x being its second endpoint only) and a connection that does not touch x;
\* the second one alone is left
C39_Witness ==
    /\ tOp = "removeNode"
    /\ \E i, j \in 1..Len(tBefore.connections) :
          /\ tBefore.connections[i].node2 = tArgs[1]
          /\ tBefore.connections[i].node1 # tArgs[1]
          /\ ~EndpointOf(tBefore.connections[j], tArgs[1])
          /\ connections = <<tBefore.connections[j]>>
====
